---------------------------- MODULE Spec2Model ----------------------------
(***************************************************************************)
(* Streaming ZIP reader of ideviceinstaller (src/src/ideviceinstaller.c):  *)
(* signature scanner, local-header reader, entry decoder (store / raw      *)
(* deflate), archive cursor, app-bundle locator and content fetcher.       *)
(* A second part models main's install / upgrade / uninstall run on top    *)
(* of the reader (SpecMain).                                               *)
(*                                                                         *)
(* The archive is a sequence of bytes (0..255); file offsets are 0-based   *)
(* as in the C code, so the byte at offset p is f[p + 1].                  *)
(*                                                                         *)
(* Four size constants of the program are scaled down so that archives of  *)
(* several chunks stay small: BUFFER_SIZE (4096 in the source), CHUNK_SIZE *)
(* (4096), INITIAL_ALLOC_SIZE (4096) and MAX_CONTENT_SIZE (10485760).      *)
(* Every chunked loop, the 3-byte rewind, the buffer doubling and the size *)
(* cap are written in terms of these names exactly as the code writes them *)
(* in terms of its literals.                                               *)
(***************************************************************************)
EXTENDS Integers, Sequences, FiniteSets, TLC

VARIABLES
    file,      \* the bytes of the archive behind zp->fp (never written)
    pos,       \* the stream position of zp->fp (ftell)
    zp,        \* the ZipParser fields
    status,    \* "run" | "hang" (a loop that never ends) | "crash" |
               \* "overflow" (a write past zp->filename) | "unmodelled"
    arch,      \* ghost: the entries the archive was built from
    positioned,\* ghost: the last r_zip_get_next_entry returned 1
    decoded,   \* ghost: the caller decoded the current entry since then
    last,      \* ghost: what the last operation was given and returned
    main       \* the state of main's install / upgrade / uninstall run
               \* (NotStarted while the reader is driven on its own)

vars == <<file, pos, zp, status, arch, positioned, decoded, last, main>>

\* main is not running
NotStarted == [pc |-> "none"]

----------------------------------------------------------------------------
(* Program constants.                                                      *)

LOCAL_HEADER_SIGNATURE == 67324752                \* 0x04034b50
CENTRAL_HEADER_SIGNATURE == 33639248              \* 0x02014b50
END_OF_CENTRAL_DIRECTORY_SIGNATURE == 101010256   \* 0x06054b50
CENTRAL_HEADER_DIGITAL_SIGNATURE == 84233040      \* 0x05054b50
ARCHIVE_EXTRA_DATA_SIGNATURE == 117853008         \* 0x07064b50
ZIP64_CENTRAL_FILE_HEADER_SIGNATURE == 101075792  \* 0x06064b50

\* 4096 in the source, scaled.
BUFFER_SIZE == 8

COMPRESSION_STORE == 0
COMPRESSION_DEFLATE == 8
FLAG_DATA_DESCRIPTOR == 8

\* sizeof(LocalFileHeader), packed
LFH_SIZE == 30

\* sizeof(zp->filename)
FILENAME_SIZE == 256

\* 10485760 in the source (r_get_content), scaled.
MAX_CONTENT_SIZE == 20

----------------------------------------------------------------------------
(* Bytes, words and the stdio calls on zp->fp.                             *)

Min(a, b) == IF a < b THEN a ELSE b
Max(a, b) == IF a > b THEN a ELSE b

\* The element of a one-element set.  Only({ e(x) : x \in {v} }) is
\* LET x == v IN e(x) with v evaluated exactly once, whatever the number of
\* uses of x in e.
Only(S) == CHOOSE x \in S : TRUE

\* The bytes of f at offsets p .. p+n-1 that exist.
Bytes(f, p, n) ==
    IF p >= Len(f) \/ n <= 0 THEN << >>
    ELSE SubSeq(f, p + 1, Min(p + n, Len(f)))

\* fread(buf, 1, n, fp) at position p: the number of bytes read.
ReadSize(f, p, n) == Len(Bytes(f, p, n))

\* The four bytes of the 32-bit value s in memory on a little-endian host.
SigBytes(s) ==
    << s % 256, (s \div 256) % 256, (s \div 65536) % 256, s \div 16777216 >>

\* memcpy(&signature, buffer + i, 4): the four bytes of b from index k
\* (1-based).  signature == S is Word(b, k) = SigBytes(S).  (The bytes are
\* compared rather than the number: TLC's integers end at 2^31 - 1.)
Word(b, k) == << b[k], b[k + 1], b[k + 2], b[k + 3] >>

LE16(b, k) == b[k] + 256 * b[k + 1]

\* a uint32_t header field; the archives keep it below 2^31
LE32(b, k) == b[k] + 256 * b[k + 1] + 65536 * b[k + 2] + 16777216 * b[k + 3]

\* (uint32_t)size: sizes in the model stay below 2^31, where the cast
\* changes nothing
Truncate32(size) == size

TerminalSignatures ==
    { CENTRAL_HEADER_SIGNATURE, END_OF_CENTRAL_DIRECTORY_SIGNATURE,
      CENTRAL_HEADER_DIGITAL_SIGNATURE, ARCHIVE_EXTRA_DATA_SIGNATURE,
      ZIP64_CENTRAL_FILE_HEADER_SIGNATURE }


----------------------------------------------------------------------------
(* r_zip_skip_until_next_entry: the signature scanner.                     *)
(*                                                                         *)
(* An outcome is what the call leaves behind: res "found" (return 1),      *)
(* "end" (return 0), "hang" (the while (1) loop never exits) or "crash";   *)
(* header_start is zp->header_start afterwards and pos the position.       *)

ScanOutcome(res, hs, p) == [res |-> res, header_start |-> hs, pos |-> p]

\* The least i in 0 .. n-1 whose word buffer[i .. i+3] is a signature the
\* for loop returns on, or -1 when the loop runs to its end.
FirstSignature(buffer, n, terminals) ==
    LET hit == { i \in 0 .. (n - 1) :
                   Word(buffer, i + 1) \in
                       { SigBytes(x) : x \in {LOCAL_HEADER_SIGNATURE} \cup terminals } }
    IN  IF hit = {} THEN -1 ELSE CHOOSE i \in hit : \A j \in hit : i <= j

\* How far past the bytes read the out-of-bounds loop is followed.
MaxStray == 2

\* read_size is 1 or 2: the loop bound read_size - 3 wraps around (size_t), so
\* the loop inspects words of the uninitialised tail of buffer and then of the
\* stack beyond it.  Whatever those bytes hold decides: a terminal signature
\* (return 0), a local signature at some index i (return 1), or a fault.
ScanPastBuffer(start, read_size, hs0) ==
    { ScanOutcome("end", hs0, start + read_size),
      ScanOutcome("crash", hs0, start + read_size) }
    \cup { ScanOutcome("found", start + i, start + read_size) : i \in 0 .. MaxStray }

\* One iteration of the while (1) loop: buffer holds the read_size bytes fread
\* delivered at position start; "more" asks for the next iteration, at pos.
ScanChunk(start, hs0, rewind, terminals, buffer, read_size) ==
    IF read_size = 0 THEN { ScanOutcome("end", hs0, start) }
    ELSE IF read_size < 3 THEN ScanPastBuffer(start, read_size, hs0)
    ELSE Only({ IF i >= 0
                THEN IF Word(buffer, i + 1) = SigBytes(LOCAL_HEADER_SIGNATURE)
                     THEN { ScanOutcome("found", start + i, start + read_size) }
                     ELSE { ScanOutcome("end", hs0, start + read_size) }
                ELSE IF start + read_size - rewind = start
                     \* the seek restores the position this iteration began
                     \* at: every later iteration repeats it
                     THEN { ScanOutcome("hang", hs0, start) }
                     ELSE { ScanOutcome("more", hs0, start + read_size - rewind) }
                : i \in { FirstSignature(buffer, read_size - 3, terminals) } })

RECURSIVE ScanFrom(_, _, _, _, _)
ScanFrom(f, start, hs0, rewind, terminals) ==
    UNION { IF o.res = "more" THEN ScanFrom(f, o.pos, hs0, rewind, terminals)
            ELSE { o }
            : o \in UNION { ScanChunk(start, hs0, rewind, terminals, buffer,
                                      Len(buffer))
                            : buffer \in { Bytes(f, start, BUFFER_SIZE) } } }

\* Mutant: no rewind before the next chunk.
ScanWithoutRewind(f, start, hs0) == ScanFrom(f, start, hs0, 0, TerminalSignatures)

\* Mutant: the ZIP64 end-of-central-directory signature is not recognised.
ScanWithoutZip64(f, start, hs0) ==
    ScanFrom(f, start, hs0, 3,
             TerminalSignatures \ {ZIP64_CENTRAL_FILE_HEADER_SIGNATURE})

r_zip_skip_until_next_entry(f, start, hs0) ==
    ScanFrom(f, start, hs0, 3, TerminalSignatures)

----------------------------------------------------------------------------
(* r_zip_open / r_reset_entry.                                             *)

\* zp->filename is a 256-byte array; it is kept without its trailing zero
\* bytes: the byte at index i (0-based) is NameByte(name, i), zero past the
\* bytes kept.  memset(zp->filename, 0, 256) leaves the empty sequence.
ZeroName == << >>

NameByte(name, i) == IF i < Len(name) THEN name[i + 1] ELSE 0

RECURSIVE TrimZeros(_)
TrimZeros(s) ==
    IF s = << >> \/ s[Len(s)] # 0 THEN s ELSE TrimZeros(SubSeq(s, 1, Len(s) - 1))

\* calloc, then header_start = data_start = -1
r_zip_open ==
    [ filename |-> ZeroName, comp_size |-> 0, uncomp_size |-> 0,
      compression |-> 0, name_length |-> 0, extra_length |-> 0, flags |-> 0,
      data_start |-> -1, header_start |-> -1, consumed |-> FALSE ]

r_reset_entry(z) ==
    [ filename |-> ZeroName, comp_size |-> 0, uncomp_size |-> 0,
      compression |-> 0, name_length |-> 0, extra_length |-> 0, flags |-> 0,
      data_start |-> 0, header_start |-> 0, consumed |-> FALSE ]

----------------------------------------------------------------------------
(* zlib's inflate() on a raw deflate stream (inflateInit2 with -MAX_WBITS), *)
(* for streams of stored blocks: a block header byte (bit 0 BFINAL, bits    *)
(* 1-2 BTYPE, the rest of the byte dropped), LEN and NLEN (16 bits each,    *)
(* little-endian, NLEN = ~LEN), then LEN literal bytes.  BTYPE 3 is invalid *)
(* (Z_DATA_ERROR).  Huffman-coded blocks (BTYPE 1, 2) are not decoded here: *)
(* the decoder enters mode "CODED", which the loops report as "unmodelled". *)
(*                                                                         *)
(* The inflate state keeps what zlib keeps between calls: the mode, the     *)
(* BFINAL flag, the length bytes pulled so far and the bytes left to copy.  *)
(* A run is the state together with the number k of bytes of the input      *)
(* chunk consumed and the output produced so far in the current call.       *)

InflateInit == [mode |-> "TYPE", final |-> FALSE, acc |-> << >>, length |-> 0]

Run(st, k, out, stop) == [st |-> st, k |-> k, out |-> out, stop |-> stop]

\* One transition of inflate()'s state machine; stop: the call returns
\* (goto inf_leave).  in is the chunk at next_in, cap is avail_out at the call.
InflateStep(c, in, cap) ==
    CASE c.st.mode = "TYPE" ->
           IF c.st.final THEN Run([c.st EXCEPT !.mode = "DONE"], c.k, c.out, FALSE)
           ELSE IF c.k = Len(in) THEN Run(c.st, c.k, c.out, TRUE)
           ELSE Run([ mode |-> CASE (in[c.k + 1] \div 2) % 4 = 0 -> "STORED"
                                 [] (in[c.k + 1] \div 2) % 4 = 3 -> "BAD"
                                 [] OTHER -> "CODED",
                      final |-> (in[c.k + 1] % 2 = 1),
                      acc |-> << >>, length |-> 0 ],
                    c.k + 1, c.out, FALSE)
      [] c.st.mode = "STORED" ->
           IF Len(c.st.acc) = 4
           THEN IF LE16(c.st.acc, 1) + LE16(c.st.acc, 3) = 65535
                THEN Run([c.st EXCEPT !.mode = "COPY", !.length = LE16(c.st.acc, 1)],
                         c.k, c.out, FALSE)
                ELSE Run([c.st EXCEPT !.mode = "BAD"], c.k, c.out, FALSE)
           ELSE IF c.k = Len(in) THEN Run(c.st, c.k, c.out, TRUE)
           ELSE Run([c.st EXCEPT !.acc = Append(@, in[c.k + 1])], c.k + 1, c.out,
                    FALSE)
      [] c.st.mode = "COPY" ->
           IF c.st.length = 0
           THEN Run([c.st EXCEPT !.mode = "TYPE"], c.k, c.out, FALSE)
           ELSE Only({ IF copy = 0 THEN Run(c.st, c.k, c.out, TRUE)
                       ELSE Run([c.st EXCEPT !.length = @ - copy], c.k + copy,
                                c.out \o SubSeq(in, c.k + 1, c.k + copy), FALSE)
                       : copy \in { Min(c.st.length,
                                        Min(Len(in) - c.k, cap - Len(c.out))) } })
      [] OTHER -> Run(c.st, c.k, c.out, TRUE)      \* DONE, BAD, CODED

\* inf_leave: what the call returns after consuming the bytes k0 .. k-1 of
\* the chunk.
InflateLeave(c, k0) ==
    [ st |-> c.st, consumed |-> c.k, out |-> c.out,
      ret |-> CASE c.st.mode = "DONE" -> "Z_STREAM_END"
                [] c.st.mode = "BAD" -> "Z_DATA_ERROR"
                [] c.st.mode = "CODED" -> "unmodelled"
                [] OTHER -> IF c.k = k0 /\ c.out = << >>
                            THEN "Z_BUF_ERROR" ELSE "Z_OK" ]

RECURSIVE InflateRun(_, _, _, _)
InflateRun(c, in, k0, cap) ==
    IF c.stop THEN InflateLeave(c, k0)
    ELSE Only({ InflateRun(n, in, k0, cap) : n \in { InflateStep(c, in, cap) } })

\* ret = inflate(&strm, Z_NO_FLUSH) with avail_out = cap, the input being the
\* bytes of chunk in from index k0 on.
inflate(st, in, k0, cap) ==
    Only({ InflateRun(c, in, k0, cap) : c \in { Run(st, k0, << >>, FALSE) } })

----------------------------------------------------------------------------
(* The read loop shared by r_close_entry, r_extract_current and             *)
(* r_extract_to_buffer:                                                     *)
(*     do { avail_in = fread(in); next_in = in;                             *)
(*          do { avail_out = sizeof(out); ret = inflate(); <use output> }   *)
(*          while (avail_out == 0);                                         *)
(*          total_in_size += read - avail_in;                               *)
(*     } while (ret != Z_STREAM_END);                                       *)
(* (Z_STREAM_ERROR, the one value the loops test for, is what inflate       *)
(* returns for an inconsistent z_stream; it is not returned on bad data.)   *)
(* The loop is unfolded into the sequence of its inflate() calls; each      *)
(* step records the output of the call (have bytes), what it returned and   *)
(* the stream position at that time.                                        *)

RECURSIVE InflateChunk(_, _, _, _, _)
\* the inner do-while on one chunk: st and k0 as they are before the next
\* inflate() call, p the stream position, steps the calls made so far
InflateChunk(st, in, k0, p, steps) ==
    Only({ IF Len(r.out) = BUFFER_SIZE        \* avail_out == 0
           THEN Only({ InflateChunk(r.st, in, r.consumed, p, steps1)
                       : steps1 \in { Append(steps, [have |-> r.out,
                                                     ret |-> r.ret, pos |-> p]) } })
           ELSE [ st |-> r.st, consumed |-> r.consumed, ret |-> r.ret,
                  steps |-> Append(steps, [have |-> r.out, ret |-> r.ret,
                                           pos |-> p]) ]
           : r \in { inflate(st, in, k0, BUFFER_SIZE) } })

LoopResult(res, steps, total_in_size, p) ==
    [res |-> res, steps |-> steps, total_in_size |-> total_in_size, pos |-> p]

RECURSIVE InflateLoop(_, _, _, _, _)
InflateLoop(f, p, st, total_in_size, steps) ==
    Only({ Only({ IF c.ret = "Z_STREAM_END"
                  THEN LoopResult("end", c.steps, total_in_size + c.consumed,
                                  p + Len(in))
                  ELSE IF c.ret = "unmodelled"
                  THEN LoopResult("unmodelled", c.steps,
                                  total_in_size + c.consumed, p + Len(in))
                  ELSE IF in = << >>
                  \* end of file and the inflater has not signalled the end:
                  \* the next iteration reads nothing again and inflate
                  \* returns the same value
                  THEN LoopResult("hang", c.steps, total_in_size + c.consumed,
                                  p + Len(in))
                  ELSE Only({ InflateLoop(f, n[1], c.st, n[2], c.steps)
                              : n \in { << p + Len(in),
                                           total_in_size + c.consumed >> } })
                  : c \in { InflateChunk(st, in, 0, p + Len(in), steps) } })
           : in \in { Bytes(f, p, BUFFER_SIZE) } })

\* The whole loop from the payload start.
InflatePayload(f, start) ==
    Only({ Only({ InflateLoop(f, start, st, 0, steps) : st \in { InflateInit } })
           : steps \in { << >> } })

\* _fseeki64(fp, target, SEEK_SET): a negative target fails and leaves the
\* position alone.
Seek(p, target) == IF target < 0 THEN p ELSE target

----------------------------------------------------------------------------
(* r_close_entry: skip the payload of the current entry, then reset.        *)

r_close_entry(f, z, p) ==
    IF z.compression = COMPRESSION_DEFLATE
    THEN Only({ IF l.res = "end"
                THEN [res |-> "ok", zp |-> r_reset_entry(z),
                      pos |-> Seek(l.pos, z.data_start + l.total_in_size)]
                ELSE [res |-> l.res, zp |-> z, pos |-> l.pos]
                : l \in { InflatePayload(f, Seek(p, z.data_start)) } })
    ELSE IF z.compression = COMPRESSION_STORE
    THEN [res |-> "ok", zp |-> r_reset_entry(z),
          pos |-> Seek(p, z.data_start + z.comp_size)]
    ELSE [res |-> "ok", zp |-> r_reset_entry(z), pos |-> p]

----------------------------------------------------------------------------
(* r_zip_get_next_entry.  An outcome: res "entry" (return 1), "none"        *)
(* (return 0), "hang", "crash", "unmodelled", or "overflow" (bytes were     *)
(* written past zp->filename); zp and pos afterwards.                       *)

HasBit(flags, bit) == (flags \div bit) % 2 = 1

\* fread(zp->filename, name_length, 1, fp); zp->filename[name_length] = 0
\* for name_length < 256: nb are the bytes the read delivered.
StoreName(old, nb, name_length) ==
    TrimZeros([ i \in 1 .. Max(Len(old), Len(nb)) |->
                  IF i <= Len(nb) THEN nb[i]
                  ELSE IF i = name_length + 1 THEN 0
                  ELSE old[i] ])

\* lines 340-347
HeaderSizes(z, flags, lfh_comp, lfh_uncomp) ==
    IF HasBit(flags, FLAG_DATA_DESCRIPTOR) /\ lfh_comp = 0
    THEN [z EXCEPT !.comp_size = 0]
    ELSE [z EXCEPT !.comp_size = lfh_comp, !.uncomp_size = lfh_uncomp]

\* lines 326-355: lfh is the header read at zp->header_start, p1 the position
\* after it, nb the name bytes read
ParseLocalHeader(z, lfh, p1, nb) ==
    IF LE16(lfh, 27) >= FILENAME_SIZE
    THEN [res |-> "overflow", zp |-> z, pos |-> p1 + Len(nb)]
    ELSE Only({ [ res |-> IF /\ z2.compression = COMPRESSION_STORE
                             /\ z2.flags = FLAG_DATA_DESCRIPTOR
                          THEN "none" ELSE "entry",
                  zp |-> z2, pos |-> z2.data_start ]
                : z2 \in { HeaderSizes(
                             [z EXCEPT !.filename = StoreName(@, nb, LE16(lfh, 27)),
                                       !.compression = LE16(lfh, 9),
                                       !.flags = LE16(lfh, 7),
                                       !.name_length = LE16(lfh, 27),
                                       !.extra_length = LE16(lfh, 29),
                                       !.data_start = p1 + Len(nb) + LE16(lfh, 29)],
                             LE16(lfh, 7), LE32(lfh, 19), LE32(lfh, 23)) } })

\* lines 315-355, with zp->header_start set by the scanner
ReadLocalHeader(f, z) ==
    Only({ IF Len(lfh) < LFH_SIZE
           THEN [res |-> "none", zp |-> z, pos |-> z.header_start + Len(lfh)]
           ELSE IF Word(lfh, 1) # SigBytes(LOCAL_HEADER_SIGNATURE)
           THEN [res |-> "none", zp |-> z, pos |-> z.header_start + LFH_SIZE]
           ELSE Only({ ParseLocalHeader(z, lfh, z.header_start + LFH_SIZE, nb)
                       : nb \in { Bytes(f, z.header_start + LFH_SIZE,
                                        LE16(lfh, 27)) } })
           : lfh \in { Bytes(f, z.header_start, LFH_SIZE) } })

\* the scan from position p and, on a signature, the header read
ScanAndRead(f, z, p) ==
    { IF o.res = "found"
      THEN Only({ ReadLocalHeader(f, z1)
                  : z1 \in { [z EXCEPT !.header_start = o.header_start] } })
      ELSE [res |-> IF o.res = "end" THEN "none" ELSE o.res, zp |-> z, pos |-> o.pos]
      : o \in r_zip_skip_until_next_entry(f, p, z.header_start) }

\* Mutant: the scan starts again at the header of the current entry instead
\* of after its payload.
NextEntryFromHeader(f, z, p) == ScanAndRead(f, z, Max(z.header_start, 0))

r_zip_get_next_entry(f, z, p) ==
    IF z.consumed = FALSE /\ z.header_start # -1
    THEN UNION { IF c.res # "ok" THEN { c } ELSE ScanAndRead(f, c.zp, c.pos)
                 : c \in { r_close_entry(f, z, p) } }
    ELSE ScanAndRead(f, z, p)

----------------------------------------------------------------------------
(* r_extract_current: decode the current entry to the AFC file.             *)
(*                                                                         *)
(* The sink is afc_file_write.  Its behaviour is an input: fail.at is the   *)
(* number of the write call that goes wrong (0: none does), fail.kind how:  *)
(* "error" (a status other than AFC_E_SUCCESS) or "short" (success with     *)
(* bytes_written one less than offered).                                    *)
(* A result: ret (the int returned), res ("ok", "hang", "unmodelled"), zp,  *)
(* pos, sink (the bytes the sink accepted, in order) and offered (the       *)
(* length of each chunk offered to it).                                     *)

\* const uint32_t CHUNK_SIZE = 4096 in the source, scaled.
CHUNK_SIZE == 8

\* Mutant: only the status of the write is looked at, not bytes_written.
SinkFailsOnStatus(fail, n, chunk) ==
    /\ fail.at = n
    /\ fail.kind = "error"

SinkFails(fail, n, chunk) ==
    /\ fail.at = n
    /\ (fail.kind = "error" \/ chunk # << >>)

\* what the sink keeps of the chunk of write call n
SinkAccepts(fail, n, chunk) ==
    IF fail.at # n THEN chunk
    ELSE IF fail.kind = "short" /\ chunk # << >>
    THEN SubSeq(chunk, 1, Len(chunk) - 1)
    ELSE << >>

ExtractResult(ret, res, z, p, sink, offered) ==
    [ret |-> ret, res |-> res, zp |-> z, pos |-> p, sink |-> sink, offered |-> offered]

RECURSIVE StoreCopy(_, _, _, _, _)
\* the while (total_written < zp->comp_size) loop; w holds the position,
\* total_written, and what the sink got so far
StoreCopy(f, z, w, fail, chunk_size) ==
    IF w.total_written >= z.comp_size
    THEN ExtractResult(1, "ok", [z EXCEPT !.consumed = TRUE], w.pos, w.sink,
                       w.offered)
    ELSE Only({ IF Len(buffer) # Min(z.comp_size - w.total_written, chunk_size)
                THEN ExtractResult(0, "ok", z, w.pos + Len(buffer), w.sink,
                                   w.offered)
                ELSE IF SinkFails(fail, Len(w.offered) + 1, buffer)
                THEN ExtractResult(0, "ok", z, w.pos + Len(buffer),
                                   w.sink \o SinkAccepts(fail, Len(w.offered) + 1,
                                                         buffer),
                                   Append(w.offered, Len(buffer)))
                ELSE Only({ StoreCopy(f, z, w1, fail, chunk_size)
                            : w1 \in { [ pos |-> w.pos + Len(buffer),
                                         total_written |->
                                             w.total_written + Len(buffer),
                                         sink |-> w.sink \o buffer,
                                         offered |-> Append(w.offered,
                                                            Len(buffer)) ] } })
                : buffer \in { Bytes(f, w.pos,
                                     Min(z.comp_size - w.total_written,
                                         chunk_size)) } })

\* Mutant: the payload is read and offered as one chunk of comp_size bytes.
ExtractStoreInOneChunk(f, z, start, fail) ==
    Only({ StoreCopy(f, z, w, fail, Max(z.comp_size, 1))
           : w \in { [ pos |-> start, total_written |-> 0, sink |-> << >>,
                       offered |-> << >> ] } })

\* lines 372-407
ExtractStore(f, z, start, fail) ==
    Only({ StoreCopy(f, z, w, fail, CHUNK_SIZE)
           : w \in { [ pos |-> start, total_written |-> 0, sink |-> << >>,
                       offered |-> << >> ] } })

RECURSIVE WriteSteps(_, _, _)
\* afc_file_write on the output of each inflate() call, in order; failed is
\* the number of the first step whose write failed (0 while none has).
WriteSteps(steps, w, fail) ==
    IF w.i > Len(steps) THEN w
    ELSE IF SinkFails(fail, w.i, steps[w.i].have)
    THEN [ i |-> w.i, failed |-> w.i,
           sink |-> w.sink \o SinkAccepts(fail, w.i, steps[w.i].have),
           offered |-> Append(w.offered, Len(steps[w.i].have)) ]
    ELSE Only({ WriteSteps(steps, w1, fail)
                : w1 \in { [ i |-> w.i + 1, failed |-> 0,
                             sink |-> w.sink \o steps[w.i].have,
                             offered |-> Append(w.offered,
                                                Len(steps[w.i].have)) ] } })

\* lines 408-459 for the loop l and its writes w
DeflateOutcome(z, l, w, fail) ==
    IF w.failed # 0
    THEN ExtractResult(0, "ok", z, l.steps[w.failed].pos, w.sink, w.offered)
    ELSE IF l.res = "end"
    THEN ExtractResult(1, "ok", [z EXCEPT !.consumed = TRUE],
                       Seek(l.pos, z.data_start + l.total_in_size),
                       w.sink, w.offered)
    ELSE IF l.res = "hang" /\ fail.at # 0 /\ fail.kind = "error"
    \* the loop keeps offering empty chunks; the failing write ends it
    THEN ExtractResult(0, "ok", z, l.pos, w.sink,
                       w.offered \o [i \in 1 .. (fail.at - Len(l.steps)) |-> 0])
    ELSE ExtractResult(0, l.res, z, l.pos, w.sink, w.offered)

ExtractDeflate(f, z, start, fail) ==
    Only({ Only({ DeflateOutcome(z, l, w, fail)
                  : w \in { WriteSteps(l.steps,
                                       [ i |-> 1, failed |-> 0, sink |-> << >>,
                                         offered |-> << >> ], fail) } })
           : l \in { InflatePayload(f, start) } })

\* Mutant: the inflater is fed the zp->comp_size bytes the header declares
\* and no more.
ExtractCurrentBySize(f, z, p, fail) ==
    IF z.compression = COMPRESSION_STORE
    THEN ExtractStore(f, z, Seek(p, z.data_start), fail)
    ELSE IF z.compression = COMPRESSION_DEFLATE
    THEN ExtractDeflate(SubSeq(f, 1, Min(Len(f), z.data_start + z.comp_size)), z,
                        Seek(p, z.data_start), fail)
    ELSE ExtractResult(0, "ok", z, Seek(p, z.data_start), << >>, << >>)

\* Mutant: the decode leaves zp->consumed as it found it.
ExtractCurrentUnmarked(f, z, p, fail) ==
    IF z.compression = COMPRESSION_STORE
    THEN [ExtractStore(f, z, Seek(p, z.data_start), fail)
            EXCEPT !.zp.consumed = z.consumed]
    ELSE IF z.compression = COMPRESSION_DEFLATE
    THEN [ExtractDeflate(f, z, Seek(p, z.data_start), fail)
            EXCEPT !.zp.consumed = z.consumed]
    ELSE ExtractResult(0, "ok", z, Seek(p, z.data_start), << >>, << >>)

r_extract_current(f, z, p, fail) ==
    IF z.compression = COMPRESSION_STORE
    THEN ExtractStore(f, z, Seek(p, z.data_start), fail)
    ELSE IF z.compression = COMPRESSION_DEFLATE
    THEN ExtractDeflate(f, z, Seek(p, z.data_start), fail)
    ELSE ExtractResult(0, "ok", z, Seek(p, z.data_start), << >>, << >>)

----------------------------------------------------------------------------
(* r_extract_to_buffer: decode the current entry into a malloc'ed buffer.   *)
(*                                                                         *)
(* A result: ret, res, zp, pos; buffer is the sequence of bytes *buffer     *)
(* points to, or NullBuffer when *buffer is NULL (a byte the code never     *)
(* wrote is Indeterminate); size is *len; peak is the largest number of     *)
(* decoded bytes held in the buffer at any time during the call, alloc the  *)
(* largest allocation, and overrun says whether a memcpy wrote past it.     *)

\* NULL: a value that no sequence of bytes equals (bytes are 0 .. 255, an
\* unwritten byte is Indeterminate)
NullBuffer == << -2 >>
Indeterminate == -1

\* uint64_t alloc_size = 4096 in the source, scaled.
INITIAL_ALLOC_SIZE == 8

BufferResult(ret, res, z, p, buffer, size, peak, alloc, overrun) ==
    [ ret |-> ret, res |-> res, zp |-> z, pos |-> p, buffer |-> buffer,
      size |-> size, peak |-> peak, alloc |-> alloc, overrun |-> overrun ]

\* Mutant: the buffer grows by one byte instead of doubling.
GrowByOne(total_size, have, alloc_size) ==
    IF total_size + have > alloc_size THEN alloc_size + 1 ELSE alloc_size

\* lines 535-542: the allocation after the test before the memcpy
Grow(total_size, have, alloc_size) ==
    IF total_size + have > alloc_size THEN alloc_size * 2 ELSE alloc_size

RECURSIVE CollectSteps(_, _)
\* the growth of the buffer over the inflate() calls: lines 534-545
CollectSteps(steps, c) ==
    IF c.i > Len(steps) THEN c
    ELSE Only({ CollectSteps(steps, c1)
                : c1 \in { [ i |-> c.i + 1,
                             data |-> c.data \o steps[c.i].have,
                             alloc_size |-> Grow(Len(c.data), Len(steps[c.i].have),
                                                 c.alloc_size),
                             overrun |->
                                 \/ c.overrun
                                 \/ Len(c.data) + Len(steps[c.i].have)
                                      > Grow(Len(c.data), Len(steps[c.i].have),
                                             c.alloc_size) ] } })

\* lines 473-489
BufferStore(z, start, got) ==
    \* malloc(comp_size) is taken to succeed (also for size 0); bytes a short
    \* read did not deliver stay unwritten
    BufferResult(1, "ok", [z EXCEPT !.consumed = TRUE], start + Len(got),
                 [ i \in 1 .. z.comp_size |->
                     IF i <= Len(got) THEN got[i] ELSE Indeterminate ],
                 z.comp_size, z.comp_size, z.comp_size, FALSE)

\* lines 490-562 for the loop l and the buffer growth c
BufferDeflate(z, l, c) ==
    IF l.res = "end"
    \* realloc(*buffer, total_size): for total_size 0 the block is freed and
    \* NULL returned
    THEN BufferResult(1, "ok", [z EXCEPT !.consumed = TRUE], l.pos,
                      IF c.data = << >> THEN NullBuffer ELSE c.data,
                      Len(c.data), Len(c.data), c.alloc_size, c.overrun)
    ELSE BufferResult(0, l.res, z, l.pos, c.data, 0, Len(c.data), c.alloc_size,
                      c.overrun)

r_extract_to_buffer(f, z, p, buffer0) ==
    IF z.compression = COMPRESSION_STORE
    THEN Only({ BufferStore(z, Seek(p, z.data_start), got)
                : got \in { Bytes(f, Seek(p, z.data_start), z.comp_size) } })
    ELSE IF z.compression = COMPRESSION_DEFLATE
    THEN Only({ Only({ BufferDeflate(z, l, c)
                       : c \in { CollectSteps(l.steps,
                                              [ i |-> 1, data |-> << >>,
                                                alloc_size |-> INITIAL_ALLOC_SIZE,
                                                overrun |-> FALSE ]) } })
                : l \in { InflatePayload(f, Seek(p, z.data_start)) } })
    ELSE BufferResult(0, "ok", z, Seek(p, z.data_start), buffer0, 0, 0, 0, FALSE)

----------------------------------------------------------------------------
(* C strings in zp->filename.                                              *)

\* the index of the first NUL of name, or Len(name) + 1 when it has none
FirstNul(name) ==
    CHOOSE i \in { j \in 1 .. Len(name) : name[j] = 0 } \cup { Len(name) + 1 } :
        \A j \in 1 .. (i - 1) : name[j] # 0

\* the bytes before the first NUL
CStr(name) == SubSeq(name, 1, FirstNul(name) - 1)

\* strncmp(name, s, Len(s)) == 0 for a string s without NUL
HasPrefix(name, s) ==
    /\ Len(CStr(name)) >= Len(s)
    /\ SubSeq(CStr(name), 1, Len(s)) = s

Slash == 47
Dot == 46
PayloadDir == << 80, 97, 121, 108, 111, 97, 100, 47 >>     \* "Payload/"
DotApp == << 46, 97, 112, 112 >>                           \* ".app"

----------------------------------------------------------------------------
(* r_get_content: fetch the first entry whose name starts with file_name.   *)
(*                                                                         *)
(* A result: ret (0 or -1), res, zp, pos, buffer and len as handed to the   *)
(* caller; calls counts the r_zip_get_next_entry calls made, extracts the   *)
(* r_extract_to_buffer calls, peak the most decoded bytes held in a buffer  *)
(* during the call, and match is the header offset of the entry the loop    *)
(* stopped at (-1 when it stopped at none).                                 *)

\* 10485760 in the source: MAX_CONTENT_SIZE
TooLarge(size) == size > MAX_CONTENT_SIZE

ContentResult(ret, res, z, p, buffer, len, calls, extracts, peak, match) ==
    [ ret |-> ret, res |-> res, zp |-> z, pos |-> p, buffer |-> buffer,
      len |-> len, calls |-> calls, extracts |-> extracts, peak |-> peak,
      match |-> match ]

\* lines 586-595: after r_extract_to_buffer returned e for the entry at
\* header offset h
FetchDecoded(z, e, calls, h) ==
    IF e.res # "ok"
    THEN ContentResult(0, e.res, e.zp, e.pos, e.buffer, 0, calls, 1, e.peak, h)
    ELSE IF z.uncomp_size = 0 /\ TooLarge(e.size)
    THEN ContentResult(-1, "ok", r_reset_entry(e.zp), e.pos, e.buffer, 0, calls, 1,
                       e.peak, h)
    ELSE ContentResult(0, "ok", r_reset_entry(e.zp), e.pos, e.buffer,
                       Truncate32(e.size), calls, 1, e.peak, h)

\* Mutant: the declared size is not looked at before decoding; the size is
\* tested on the decoded length only.
FetchMatchedAfterDecode(f, z, p, calls) ==
    Only({ FetchDecoded([z EXCEPT !.uncomp_size = 0], e, calls, z.header_start)
           : e \in { r_extract_to_buffer(f, z, p, NullBuffer) } })

\* lines 579-596: the entry in z matched
FetchMatched(f, z, p, calls) ==
    IF z.uncomp_size # 0 /\ TooLarge(z.uncomp_size)
    THEN ContentResult(-1, "ok", r_reset_entry(z), p, NullBuffer, 0, calls, 0, 0,
                       z.header_start)
    ELSE Only({ FetchDecoded(z, e, calls, z.header_start)
                : e \in { r_extract_to_buffer(f, z, p, NullBuffer) } })

RECURSIVE FetchLoop(_, _, _, _, _)
\* while (r_zip_get_next_entry(zp)) { ... }
FetchLoop(f, z, p, file_name, calls) ==
    UNION { IF o.res = "entry"
            THEN IF HasPrefix(o.zp.filename, file_name)
                 THEN { FetchMatched(f, o.zp, o.pos, calls + 1) }
                 ELSE FetchLoop(f, o.zp, o.pos, file_name, calls + 1)
            ELSE IF o.res = "none"
            THEN { ContentResult(0, "ok", r_reset_entry(o.zp), o.pos, NullBuffer,
                                 0, calls + 1, 0, 0, -1) }
            ELSE { ContentResult(0, o.res, o.zp, o.pos, NullBuffer, 0, calls + 1,
                                 0, 0, -1) }
            : o \in r_zip_get_next_entry(f, z, p) }

RECURSIVE FetchLoopWithoutBreak(_, _, _, _, _, _)
\* The loop without the break of line 596: after a match that did not return,
\* the iteration goes on and a later match overwrites *buffer and size.
\* held is the result of the latest match.
FetchLoopWithoutBreak(f, z, p, file_name, calls, held) ==
    UNION { IF o.res = "entry"
            THEN IF HasPrefix(o.zp.filename, file_name)
                 THEN UNION { IF m.ret = -1 \/ m.res # "ok" THEN { m }
                              ELSE FetchLoopWithoutBreak(
                                       f, [o.zp EXCEPT !.consumed = TRUE],
                                       m.pos, file_name, calls + 1, m)
                              : m \in { FetchMatched(f, o.zp, o.pos, calls + 1) } }
                 ELSE FetchLoopWithoutBreak(f, o.zp, o.pos, file_name, calls + 1,
                                            held)
            ELSE IF o.res = "none"
            THEN { [held EXCEPT !.zp = r_reset_entry(o.zp), !.pos = o.pos,
                                !.calls = calls + 1] }
            ELSE { [held EXCEPT !.res = o.res, !.zp = o.zp, !.pos = o.pos,
                                !.calls = calls + 1] }
            : o \in r_zip_get_next_entry(f, z, p) }

\* Mutant: r_get_content without the break after a match.
GetContentWithoutBreak(f, z, p, file_name) ==
    Only({ FetchLoopWithoutBreak(f, r_reset_entry(z), p, file_name, 0, held)
           : held \in { ContentResult(0, "ok", z, p, NullBuffer, 0, 0, 0, 0, -1) } })

r_get_content(f, z, p, file_name) ==
    FetchLoop(f, r_reset_entry(z), p, file_name, 0)

----------------------------------------------------------------------------
(* r_get_app_directory: the "Payload/<name>.app/" prefix of the first entry *)
(* that has one.  A result: ret (0 or -1), res, zp, pos, path (the C string *)
(* *path points to, or NullBuffer), calls.                                  *)

\* The index (0-based) of the first '/' at index >= 8 of the 256-byte array,
\* -1 when the array holds none from there on.
SlashIndex(name) ==
    Only({ IF hit = {} THEN -1 ELSE CHOOSE i \in hit : \A j \in hit : i <= j
           : hit \in { { i \in 8 .. (Len(name) - 1) : name[i + 1] = Slash } } })

PathResult(ret, res, z, p, path, calls) ==
    [ret |-> ret, res |-> res, zp |-> z, pos |-> p, path |-> path, calls |-> calls]

\* lines 634-640 for the slash found at index s: "accept" or "skip"
BundleRule(name, s) ==
    IF s + 1 < 12 \/ SubSeq(name, s - 3, s) # DotApp THEN "skip" ELSE "accept"

\* strncpy(*path, name, len); (*path)[len] = 0
CopyPath(name, len) == SubSeq(CStr(name), 1, Min(len, Len(CStr(name))))

\* lines 612-655 for one entry: "continue" (next entry), "accept" (copy the
\* prefix up to the slash at index s and break) or "stray" (the search for
\* the slash left the array)
Classify(name, s) ==
    IF ~(HasPrefix(name, PayloadDir) /\ Len(CStr(name)) > 8) THEN "continue"
    ELSE IF NameByte(name, 8) = Dot THEN "continue"
    ELSE IF s = -1 THEN "stray"
    ELSE IF BundleRule(name, s) = "skip" THEN "continue"
    ELSE "accept"

RECURSIVE LocateLoop(_, _, _, _, _)
LocateLoop(f, z, p, path, calls) ==
    UNION { IF o.res = "entry"
            THEN UNION { UNION {
                   CASE c = "accept" ->
                          { PathResult(0, "ok", o.zp, o.pos,
                                       CopyPath(o.zp.filename, s + 1), calls + 1) }
                     [] c = "stray" ->
                          \* do { if (*p == '/') break; } while (p++ != NULL):
                          \* p never becomes NULL, so the search leaves the
                          \* array and goes on through whatever memory follows.
                          \* It faults, or it finds a '/' byte there, after
                          \* which the four bytes before it decide between
                          \* continue and the copy of the (shorter) name.
                          { PathResult(0, "crash", o.zp, o.pos, path, calls + 1),
                            PathResult(0, "ok", o.zp, o.pos,
                                       CopyPath(o.zp.filename, FILENAME_SIZE + 1),
                                       calls + 1) }
                          \cup LocateLoop(f, o.zp, o.pos, path, calls + 1)
                     [] OTHER -> LocateLoop(f, o.zp, o.pos, path, calls + 1)
                   : c \in { Classify(o.zp.filename, s) } }
                   : s \in { SlashIndex(o.zp.filename) } }
            ELSE IF o.res = "none"
            THEN { PathResult(IF path = NullBuffer THEN -1 ELSE 0, "ok", o.zp,
                              o.pos, path, calls + 1) }
            ELSE { PathResult(0, o.res, o.zp, o.pos, path, calls + 1) }
            : o \in r_zip_get_next_entry(f, z, p) }

r_get_app_directory(f, z, p, path) == LocateLoop(f, z, p, path, 0)

----------------------------------------------------------------------------
(* Byte streams for the scanner on its own.                                *)

MaxStreamLen == 19

Fill(n) == [i \in 1 .. n |-> 0]

\* f with the bytes bs stored from offset p on
Put(f, p, bs) ==
    [ i \in 1 .. Len(f) |->
        IF i > p /\ i <= p + Len(bs) THEN bs[i - p] ELSE f[i] ]

TerminalList ==
    << CENTRAL_HEADER_SIGNATURE, END_OF_CENTRAL_DIRECTORY_SIGNATURE,
       CENTRAL_HEADER_DIGITAL_SIGNATURE, ARCHIVE_EXTRA_DATA_SIGNATURE,
       ZIP64_CENTRAL_FILE_HEADER_SIGNATURE >>

\* the terminal signature written at offset t cycles through the five kinds
TerminalAt(t) == TerminalList[(t % 5) + 1]

ScanStreams ==
    { Fill(n) : n \in 0 .. MaxStreamLen }
    \cup { Put(Fill(n), p, SigBytes(LOCAL_HEADER_SIGNATURE)) :
             <<n, p>> \in { x \in (4 .. MaxStreamLen) \X (0 .. MaxStreamLen) :
                              x[2] + 4 <= x[1] } }
    \cup { Put(Fill(n), t, SigBytes(TerminalAt(t))) :
             <<n, t>> \in { x \in (4 .. MaxStreamLen) \X (0 .. MaxStreamLen) :
                              x[2] + 4 <= x[1] } }
    \cup { Put(Put(Fill(x[1]), x[2], SigBytes(LOCAL_HEADER_SIGNATURE)),
               x[3], SigBytes(TerminalAt(x[3]))) :
             x \in { y \in (8 .. MaxStreamLen) \X (0 .. MaxStreamLen)
                                               \X (0 .. MaxStreamLen) :
                       /\ y[2] + 4 <= y[1]
                       /\ y[3] + 4 <= y[1]
                       /\ (y[2] + 4 <= y[3] \/ y[3] + 4 <= y[2]) } }

InitScan ==
    /\ file \in ScanStreams
    /\ pos \in 0 .. Len(file)
    /\ zp = r_zip_open
    /\ status = "run"
    /\ arch = [entries |-> << >>, tail |-> file]
    /\ positioned = FALSE
    /\ decoded = FALSE
    /\ last = [op |-> "none"]
    /\ main = NotStarted

\* One call of the scanner from the current position.
Scan ==
    /\ status = "run"
    /\ last.op = "none"
    /\ \E o \in r_zip_skip_until_next_entry(file, pos, zp.header_start) :
         /\ pos' = o.pos
         /\ zp' = [zp EXCEPT !.header_start = o.header_start]
         /\ status' = IF o.res \in {"hang", "crash"} THEN o.res ELSE "run"
         /\ last' = [op |-> "scan", start |-> pos, res |-> o.res]
    /\ UNCHANGED <<file, arch, positioned, decoded, main>>

SpecScan == InitScan /\ [][Scan]_vars


----------------------------------------------------------------------------
(* Archives.  An entry is written as the ZIP format lays it out: the 30-byte *)
(* local header, the name, the extra field, the payload and whatever trails *)
(* it (a data descriptor).  content is what the payload decodes to.         *)

LE16Bytes(n) == << n % 256, (n \div 256) % 256 >>

Entry(name, method, flags, hcomp, huncomp, payload, content, trailer) ==
    [ name |-> name, method |-> method, flags |-> flags, hcomp |-> hcomp,
      huncomp |-> huncomp, extra |-> << >>, payload |-> payload,
      content |-> content, trailer |-> trailer ]

HeaderBytes(e) ==
    SigBytes(LOCAL_HEADER_SIGNATURE) \o << 20, 0 >> \o LE16Bytes(e.flags)
    \o LE16Bytes(e.method) \o << 0, 0, 0, 0 >> \o << 0, 0, 0, 0 >>
    \o SigBytes(e.hcomp) \o SigBytes(e.huncomp)
    \o LE16Bytes(Len(e.name)) \o LE16Bytes(Len(e.extra))

EntryBytes(e) == HeaderBytes(e) \o e.name \o e.extra \o e.payload \o e.trailer

RECURSIVE EntriesBytes(_)
EntriesBytes(es) ==
    IF es = << >> THEN << >> ELSE EntryBytes(Head(es)) \o EntriesBytes(Tail(es))

ArchiveBytes(a) == EntriesBytes(a.entries) \o a.tail

\* where entry k of archive a starts, where its payload starts and ends
HeaderOffset(a, k) == Len(EntriesBytes(SubSeq(a.entries, 1, k - 1)))
PayloadStart(a, k) ==
    HeaderOffset(a, k) + LFH_SIZE + Len(a.entries[k].name) + Len(a.entries[k].extra)
PayloadEnd(a, k) == PayloadStart(a, k) + Len(a.entries[k].payload)

\* a raw deflate stream of one final stored block
Stored(content) ==
    << 1 >> \o LE16Bytes(Len(content)) \o LE16Bytes(65535 - Len(content)) \o content

\* ... of two stored blocks, the first holding n bytes
StoredTwice(content, n) ==
    << 0 >> \o LE16Bytes(n) \o LE16Bytes(65535 - n) \o SubSeq(content, 1, n)
    \o Stored(SubSeq(content, n + 1, Len(content)))

\* a data descriptor: signature 0x08074b50, crc-32, sizes
Descriptor(comp, uncomp) ==
    << 80, 75, 7, 8 >> \o << 0, 0, 0, 0 >> \o SigBytes(comp) \o SigBytes(uncomp)

CentralDirectory == SigBytes(CENTRAL_HEADER_SIGNATURE) \o << 0, 0 >>

StoreEntry(name, content) ==
    Entry(name, COMPRESSION_STORE, 0, Len(content), Len(content), content, content,
          << >>)

\* deflate, sizes in the header
DeflateEntry(name, payload, content) ==
    Entry(name, COMPRESSION_DEFLATE, 0, Len(payload), Len(content), payload,
          content, Descriptor(Len(payload), Len(content)))

\* deflate, sizes deferred to the data descriptor
DeferredEntry(name, payload, content) ==
    Entry(name, COMPRESSION_DEFLATE, FLAG_DATA_DESCRIPTOR, 0, 0, payload, content,
          Descriptor(Len(payload), Len(content)))

NameA == << 97 >>                   \* "a"
NameAB == << 97, 98 >>              \* "ab"
NameB == << 98 >>                   \* "b"
NameZ == << 122 >>                  \* "z"
NameHidden == PayloadDir \o << 46, 104, 47, 102 >>                   \* Payload/.h/f
NameFoo == PayloadDir \o << 70, 111, 111, 46, 97, 112, 112, 47, 98 >> \* Payload/Foo.app/b
NameBar == PayloadDir \o << 66, 97, 114, 46, 97, 112, 112, 47, 98 >>  \* Payload/Bar.app/b
NameNoSlash == PayloadDir \o << 70, 111, 111 >>                       \* Payload/Foo
NameShort == PayloadDir \o << 70, 47, 98 >>                           \* Payload/F/b
BundleFoo == PayloadDir \o << 70, 111, 111, 46, 97, 112, 112, 47 >>   \* Payload/Foo.app/

\* FILENAME_SIZE times "n"
NameLong == [i \in 1 .. FILENAME_SIZE |-> 110]

Bytes3 == << 1, 2, 3 >>
Bytes10 == << 11, 12, 13, 14, 15, 16, 17, 18, 19, 20 >>
\* one byte more than r_get_content accepts
BytesOver == [i \in 1 .. (MAX_CONTENT_SIZE + 1) |-> 100 + (i % 100)]
\* a payload that holds a local header of its own (an archive inside the
\* archive)
Nested == EntryBytes(StoreEntry(NameA, << 9 >>))

Archives ==
    { \* store entries only
      [entries |-> << StoreEntry(NameA, Bytes3), StoreEntry(NameAB, Bytes10) >>,
       tail |-> CentralDirectory],
      [entries |-> << StoreEntry(NameAB, Bytes3), StoreEntry(NameA, << 7, 8 >>),
                      StoreEntry(NameB, << >>) >>,
       tail |-> CentralDirectory],
      [entries |-> << StoreEntry(NameB, Bytes3), StoreEntry(NameAB, Nested),
                      StoreEntry(NameZ, << 5 >>) >>,
       tail |-> CentralDirectory],
      [entries |-> << StoreEntry(NameA, BytesOver) >>, tail |-> CentralDirectory],
      [entries |-> << Entry(NameA, COMPRESSION_STORE, FLAG_DATA_DESCRIPTOR, 3, 3,
                            Bytes3, Bytes3, Descriptor(3, 3)),
                      StoreEntry(NameB, Bytes3) >>,
       tail |-> CentralDirectory],
      \* store with the sizes deferred, and another flag bit (UTF-8 names) set
      [entries |-> << Entry(NameB, COMPRESSION_STORE, 2048 + FLAG_DATA_DESCRIPTOR,
                            0, 0, Nested, Nested, Descriptor(Len(Nested), Len(Nested))),
                      StoreEntry(NameAB, Bytes3) >>,
       tail |-> CentralDirectory],
      \* deflate
      [entries |-> << DeferredEntry(NameA, Stored(Bytes10), Bytes10),
                      StoreEntry(NameAB, Bytes3) >>,
       tail |-> CentralDirectory],
      [entries |-> << DeflateEntry(NameA, Stored(Bytes10), Bytes10),
                      StoreEntry(NameAB, Bytes3) >>,
       tail |-> CentralDirectory],
      [entries |-> << StoreEntry(NameB, Bytes3),
                      DeferredEntry(NameA, StoredTwice(Bytes10, 8), Bytes10) >>,
       tail |-> CentralDirectory],
      [entries |-> << StoreEntry(NameB, Bytes3),
                      DeflateEntry(NameA, StoredTwice(Bytes10, 8), Bytes10) >>,
       tail |-> CentralDirectory],
      [entries |-> << DeferredEntry(NameA, Stored(BytesOver), BytesOver) >>,
       tail |-> CentralDirectory],
      [entries |-> << DeflateEntry(NameA, Stored(BytesOver), BytesOver) >>,
       tail |-> CentralDirectory],
      \* an invalid block type, and a stream cut off by the end of the file
      [entries |-> << DeflateEntry(NameA, << 7, 0, 0 >>, << >>),
                      StoreEntry(NameAB, Bytes3) >>,
       tail |-> CentralDirectory],
      [entries |-> << Entry(NameA, COMPRESSION_DEFLATE, 0, 8, 10,
                            SubSeq(Stored(Bytes10), 1, 8), Bytes10, << >>) >>,
       tail |-> << >>],
      \* a method that is neither store nor deflate (12: bzip2)
      [entries |-> << Entry(NameA, 12, 0, 3, 3, Bytes3, << >>, << >>),
                      StoreEntry(NameAB, Bytes3) >>,
       tail |-> CentralDirectory],
      \* application bundles
      [entries |-> << StoreEntry(NameHidden, << 1 >>), StoreEntry(NameFoo, << 2 >>),
                      StoreEntry(NameBar, << 3 >>) >>,
       tail |-> CentralDirectory],
      [entries |-> << StoreEntry(PayloadDir, << >>), StoreEntry(NameShort, << 1 >>),
                      StoreEntry(NameBar, << 3 >>), StoreEntry(NameFoo, << 2 >>) >>,
       tail |-> CentralDirectory],
      [entries |-> << StoreEntry(NameNoSlash, << 1 >>), StoreEntry(NameFoo, << 2 >>) >>,
       tail |-> CentralDirectory],
      [entries |-> << StoreEntry(NameA, Bytes3) >>, tail |-> CentralDirectory],
      \* a file directly under Payload/ and no bundle
      [entries |-> << StoreEntry(NameA, Bytes3), StoreEntry(NameNoSlash, << 1 >>) >>,
       tail |-> CentralDirectory],
      \* a name as long as zp->filename
      [entries |-> << StoreEntry(NameLong, << 1 >>), StoreEntry(NameA, Bytes3) >>,
       tail |-> CentralDirectory],
      \* a deflate entry of no bytes
      [entries |-> << DeflateEntry(NameZ, Stored(<< >>), << >>),
                      StoreEntry(NameB, Bytes3) >>,
       tail |-> CentralDirectory],
      \* a store payload cut short by the end of the file
      [entries |-> << [StoreEntry(NameB, Bytes10) EXCEPT !.payload = Bytes3] >>,
       tail |-> << >>],
      \* no central directory
      [entries |-> << StoreEntry(NameA, Bytes3) >>, tail |-> << >>],
      [entries |-> << >>, tail |-> CentralDirectory] }

\* the names r_get_content is asked for
Targets == { NameA, NameAB, NameB, NameZ, BundleFoo }

MaxFailAt == 2

SinkBehaviours ==
    { [at |-> 0, kind |-> "error"] }
    \cup { [at |-> n, kind |-> k] : n \in 1 .. MaxFailAt, k \in {"error", "short"} }

----------------------------------------------------------------------------
(* The cursor and decoder operations on an open archive.                    *)

Init ==
    /\ arch \in Archives
    /\ file = ArchiveBytes(arch)
    /\ pos = 0
    /\ zp = r_zip_open
    /\ status = "run"
    /\ positioned = FALSE
    /\ decoded = FALSE
    /\ last = [op |-> "none"]
    /\ main = NotStarted

StatusAfter(res) == IF res \in {"ok", "entry", "none"} THEN "run" ELSE res

\* what the operation found when it was called
Before == [ pos |-> pos, zp |-> zp, positioned |-> positioned, decoded |-> decoded ]

\* Mutant: the cursor step with the scan restarted at the current header.
NextEntryRescan ==
    /\ status = "run"
    /\ \E o \in NextEntryFromHeader(file, zp, pos) :
         /\ zp' = o.zp
         /\ pos' = o.pos
         /\ status' = StatusAfter(o.res)
         /\ positioned' = (o.res = "entry")
         /\ decoded' = FALSE
         /\ last' = [op |-> "next", ret |-> IF o.res = "entry" THEN 1 ELSE 0,
                     res |-> o.res, before |-> Before]
    /\ UNCHANGED <<file, arch, main>>

NextEntry ==
    /\ status = "run"
    /\ \E o \in r_zip_get_next_entry(file, zp, pos) :
         /\ zp' = o.zp
         /\ pos' = o.pos
         /\ status' = StatusAfter(o.res)
         /\ positioned' = (o.res = "entry")
         /\ decoded' = FALSE
         /\ last' = [op |-> "next", ret |-> IF o.res = "entry" THEN 1 ELSE 0,
                     res |-> o.res, before |-> Before]
    /\ UNCHANGED <<file, arch, main>>

ExtractCurrent ==
    /\ status = "run"
    /\ positioned
    /\ \E fail \in SinkBehaviours :
         \E o \in { r_extract_current(file, zp, pos, fail) } :
             /\ zp' = o.zp
             /\ pos' = o.pos
             /\ status' = StatusAfter(o.res)
             /\ decoded' = (decoded \/ (o.res = "ok" /\ o.ret = 1))
             /\ last' = [op |-> "extract", ret |-> o.ret, res |-> o.res,
                         before |-> Before, fail |-> fail, sink |-> o.sink,
                         offered |-> o.offered]
    /\ UNCHANGED <<file, arch, positioned, main>>

ExtractToBuffer ==
    /\ status = "run"
    /\ positioned
    /\ \E o \in { r_extract_to_buffer(file, zp, pos, NullBuffer) } :
         /\ zp' = o.zp
         /\ pos' = o.pos
         /\ status' = StatusAfter(o.res)
         /\ decoded' = (decoded \/ (o.res = "ok" /\ o.ret = 1))
         /\ last' = [op |-> "buffer", ret |-> o.ret, res |-> o.res,
                     before |-> Before, buffer |-> o.buffer, size |-> o.size,
                     peak |-> o.peak, alloc |-> o.alloc, overrun |-> o.overrun]
    /\ UNCHANGED <<file, arch, positioned, main>>

GetContent ==
    /\ status = "run"
    /\ \E file_name \in Targets :
         \E o \in r_get_content(file, zp, pos, file_name) :
             /\ zp' = o.zp
             /\ pos' = o.pos
             /\ status' = StatusAfter(o.res)
             /\ positioned' = FALSE
             /\ decoded' = FALSE
             /\ last' = [op |-> "content", ret |-> o.ret, res |-> o.res,
                         before |-> Before, file_name |-> file_name,
                         buffer |-> o.buffer, len |-> o.len, calls |-> o.calls,
                         extracts |-> o.extracts, peak |-> o.peak,
                         match |-> o.match]
    /\ UNCHANGED <<file, arch, main>>

GetAppDirectory ==
    /\ status = "run"
    /\ \E o \in r_get_app_directory(file, zp, pos, NullBuffer) :
         /\ zp' = o.zp
         /\ pos' = o.pos
         /\ status' = StatusAfter(o.res)
         /\ positioned' = FALSE
         /\ decoded' = FALSE
         /\ last' = [op |-> "locate", ret |-> o.ret, res |-> o.res,
                     before |-> Before, path |-> o.path, calls |-> o.calls]
    /\ UNCHANGED <<file, arch, main>>

Next ==
    \/ NextEntry
    \/ ExtractCurrent
    \/ ExtractToBuffer
    \/ GetContent
    \/ GetAppDirectory

Spec == Init /\ [][Next]_vars

----------------------------------------------------------------------------
(* main: the install / upgrade / uninstall commands (lines 1428-1760), the  *)
(* archive / restore / remove-archive commands (lines 1839-2022) and the    *)
(* wait for their completion (lines 823-844, 2033-2055).                    *)
(*                                                                         *)
(* main.pc is the place in main: "start" (the command dispatch, line 1428), *)
(* "ipcc" (the while loop of line 1491), "write" (a file of the bundle is   *)
(* open on the device, line 1510), "meta" (1607), "locate" (1629), "info"   *)
(* (1642), "sinf" (1690), "upload" (1720), "close" (1740), "command"        *)
(* (1745), "wait_command" (832), "wait_notification" (838), "copy" (1897),  *)
(* "run_again" (1295), "exit" (the return of main).  What the device,       *)
(* libplist and the file system answer is an input of each step.            *)

ITUNES_METADATA_PLIST_FILENAME ==                  \* "iTunesMetadata.plist"
    << 105, 84, 117, 110, 101, 115, 77, 101, 116, 97, 100, 97, 116, 97, 46, 112,
       108, 105, 115, 116 >>
InfoPlist == << 73, 110, 102, 111, 46, 112, 108, 105, 115, 116 >> \* "Info.plist"
ScInfo == << 46, 97, 112, 112, 47, 83, 67, 95, 73, 110, 102, 111, 47 >>
                                                                \* ".app/SC_Info/"
SinfSuffix == << 46, 115, 105, 110, 102 >>                       \* ".sinf"

\* asprintf(&sinfname, "Payload/%s.app/SC_Info/%s.sinf", e, e)
SinfName(e) == PayloadDir \o e \o ScInfo \o e \o SinfSuffix

EXIT_FAILURE == 1

\* the value of CFBundleExecutable in the Info.plist of the packages
Foo == << 70, 111, 111 >>

NameMeta == ITUNES_METADATA_PLIST_FILENAME
NameInfo == PayloadDir \o Foo \o << 46, 97, 112, 112, 47 >> \o InfoPlist
NameSinf == SinfName(Foo)
NameDir == << 100, 47 >>                                         \* "d/"

\* the packages main is given
Packages ==
    { \* an .ipa with metadata and .sinf, one with neither, one without bundle
      [entries |-> << StoreEntry(NameMeta, Bytes3), StoreEntry(NameInfo, Bytes3),
                      StoreEntry(NameSinf, << 7, 8 >>) >>,
       tail |-> CentralDirectory],
      [entries |-> << StoreEntry(NameInfo, Bytes3) >>, tail |-> CentralDirectory],
      [entries |-> << StoreEntry(NameMeta, Bytes3), StoreEntry(NameA, << 5 >>) >>,
       tail |-> CentralDirectory],
      \* a carrier bundle: a directory and two files
      [entries |-> << StoreEntry(NameDir, << >>), StoreEntry(NameA, Bytes3),
                      DeflateEntry(NameAB, Stored(Bytes10), Bytes10) >>,
       tail |-> CentralDirectory],
      \* a store entry with a data descriptor between two files
      [entries |-> << StoreEntry(NameA, Bytes3),
                      Entry(NameB, COMPRESSION_STORE, FLAG_DATA_DESCRIPTOR, 3, 3,
                            Bytes3, Bytes3, Descriptor(3, 3)),
                      StoreEntry(NameAB, Bytes3) >>,
       tail |-> CentralDirectory],
      \* the file ends 10 bytes into the second local header
      [entries |-> << StoreEntry(NameA, Bytes3) >>,
       tail |-> SubSeq(HeaderBytes(StoreEntry(NameB, Bytes3)), 1, 10)] }

\* main at the command dispatch
Started(cmd, package, use_notifier, extmeta, extsinf) ==
    [ pc |-> "start", cmd |-> cmd, package |-> package,
      use_notifier |-> use_notifier,
      \* -m / -s given and the file loaded (lines 1590-1605, 1679-1688)
      extmeta |-> extmeta, extsinf |-> extsinf,
      opened |-> 0, closes |-> 0, located |-> "no", abort |-> "none",
      warnings |-> {}, app_directory_name |-> NullBuffer,
      bundleexecutable |-> NullBuffer, meta |-> FALSE, sinf |-> FALSE,
      uploaded |-> FALSE, commanded |-> FALSE,
      \* archive options: --copy, --remove, and the default of skip_uninstall
      copy_path |-> FALSE, remove_after_copy |-> FALSE, skip_uninstall |-> TRUE,
      \* ghost: the commands issued so far, those whose "Complete" status_cb
      \* has seen, and whether another device's removal was reported
      issued |-> 0, completed |-> {}, other_removed |-> FALSE,
      wait_for_command_complete |-> FALSE, notification_expected |-> FALSE,
      command_completed |-> FALSE, err_occurred |-> FALSE, notified |-> FALSE,
      is_device_connected |-> FALSE, res |-> EXIT_FAILURE ]

InitMain ==
    /\ arch \in Packages
    /\ file = ArchiveBytes(arch)
    /\ pos = 0
    /\ zp = r_zip_open
    /\ status = "run"
    /\ positioned = FALSE
    /\ decoded = FALSE
    /\ last = [op |-> "none"]
    /\ main \in { Started(cmd, "ipcc", n, FALSE, FALSE)
                  : cmd \in {"install", "upgrade"}, n \in BOOLEAN }
                \cup { Started(cmd, "ipa", n, m, s)
                       : cmd \in {"install", "upgrade"}, n \in BOOLEAN,
                         m \in BOOLEAN, s \in BOOLEAN }
                \cup { Started("install", "dir", n, FALSE, FALSE) : n \in BOOLEAN }
                \cup { Started(cmd, "none", n, FALSE, FALSE)
                       : cmd \in {"uninstall", "restore", "remove_archive"},
                         n \in BOOLEAN }
                \cup { [Started("archive", "none", n, FALSE, FALSE)
                          EXCEPT !.copy_path = c, !.remove_after_copy = r,
                                 !.skip_uninstall = u]
                       : n \in BOOLEAN, c \in BOOLEAN, r \in BOOLEAN,
                         u \in BOOLEAN }

\* r_zip_close(zp): fclose and free; zp itself is not set to NULL
CloseStream(m) == [m EXCEPT !.closes = @ + 1]

\* goto leave_cleanup ... return res (lines 2036-2055)
Leave(m, abort) ==
    [m EXCEPT !.pc = "exit", !.abort = abort,
              !.res = IF m.err_occurred /\ m.res = 0 THEN 128 ELSE m.res]

\* zname[strlen(zname)-1] == '/' (line 1496); for an empty name the byte
\* before zp->filename is read, which may or may not be a '/'
IsDirectoryName(name) ==
    IF CStr(name) = << >> THEN BOOLEAN ELSE { CStr(name)[Len(CStr(name))] = Slash }

\* the reader variables after a call that returned outcome o
ReaderAfter(o, op, at_entry) ==
    /\ zp' = o.zp
    /\ pos' = o.pos
    /\ status' = StatusAfter(o.res)
    /\ positioned' = at_entry
    /\ decoded' = FALSE
    /\ last' = [op |-> op, ret |-> o.ret, res |-> o.res, before |-> Before]

\* lines 1477-1482 and 1581-1585: zp = r_zip_open(cmdarg)
MainOpen ==
    /\ status = "run"
    /\ main.pc = "start"
    /\ main.package \in {"ipcc", "ipa"}
    /\ \E ok \in BOOLEAN :
         main' = IF ok
                 THEN [main EXCEPT !.opened = 1,
                                   !.pc = IF main.package = "ipcc"
                                          THEN "ipcc" ELSE "meta"]
                 ELSE Leave(main, "open")
    /\ UNCHANGED <<file, arch, pos, zp, status, positioned, decoded, last>>

\* lines 1526-1578: a developer app directory; no archive is opened
MainUploadDir ==
    /\ status = "run"
    /\ main.pc = "start"
    /\ main.package = "dir"
    /\ \E info \in BOOLEAN :
         main' = IF info
                 THEN [main EXCEPT !.uploaded = TRUE, !.pc = "close"]
                 ELSE Leave([main EXCEPT !.uploaded = TRUE], "info")
    /\ UNCHANGED <<file, arch, pos, zp, status, positioned, decoded, last>>

\* lines 1491-1523, up to the decode of a file
IpccNextEntry ==
    /\ status = "run"
    /\ main.pc = "ipcc"
    /\ \E o \in r_zip_get_next_entry(file, zp, pos) :
         /\ zp' = o.zp
         /\ pos' = o.pos
         /\ status' = StatusAfter(o.res)
         /\ positioned' = (o.res = "entry")
         /\ decoded' = FALSE
         /\ last' = [op |-> "next", ret |-> IF o.res = "entry" THEN 1 ELSE 0,
                     res |-> o.res, before |-> Before]
         /\ \E directory \in IsDirectoryName(o.zp.filename), open \in BOOLEAN :
              main' = IF o.res = "entry"
                      THEN IF directory \/ ~open THEN main
                           ELSE [main EXCEPT !.pc = "write"]
                      ELSE IF o.res = "none"
                      \* the loop ends: r_zip_close(zp) of line 1521
                      THEN [CloseStream(main) EXCEPT !.pc = "close"]
                      ELSE main
    /\ UNCHANGED <<file, arch>>

\* lines 1510-1517
IpccExtract ==
    /\ status = "run"
    /\ main.pc = "write"
    /\ \E fail \in SinkBehaviours :
         \E o \in { r_extract_current(file, zp, pos, fail) } :
             /\ zp' = o.zp
             /\ pos' = o.pos
             /\ status' = StatusAfter(o.res)
             /\ decoded' = (decoded \/ (o.res = "ok" /\ o.ret = 1))
             /\ last' = [op |-> "extract", ret |-> o.ret, res |-> o.res,
                         before |-> Before, fail |-> fail, sink |-> o.sink,
                         offered |-> o.offered]
             /\ main' = IF o.res # "ok" THEN main
                        ELSE IF o.ret = 0
                        THEN Leave(CloseStream(main), "extract")
                        ELSE [main EXCEPT !.pc = "ipcc"]
    /\ UNCHANGED <<file, arch, positioned>>

\* lines 1590-1605 when the external metadata was loaded
IpaExternalMetadata ==
    /\ status = "run"
    /\ main.pc = "meta"
    /\ main.extmeta
    /\ main' = [main EXCEPT !.meta = TRUE, !.pc = "locate"]
    /\ UNCHANGED <<file, arch, pos, zp, status, positioned, decoded, last>>

\* lines 1607-1620; parsed: plist_from_memory yields a dictionary
IpaMetadata ==
    /\ status = "run"
    /\ main.pc = "meta"
    /\ ~main.extmeta
    /\ \E o \in r_get_content(file, zp, pos, ITUNES_METADATA_PLIST_FILENAME) :
         /\ ReaderAfter(o, "content", FALSE)
         /\ \E parsed \in BOOLEAN :
              \E meta_dict \in { /\ o.ret = 0
                                 /\ o.buffer # NullBuffer
                                 /\ o.len > 0
                                 /\ parsed } :
                  main' = IF o.res # "ok" THEN main
                          ELSE [main EXCEPT
                                  !.meta = meta_dict,
                                  !.warnings = IF meta_dict THEN @
                                               ELSE @ \cup {"meta"},
                                  !.pc = "locate"]
    /\ UNCHANGED <<file, arch>>

\* lines 1629-1633
IpaLocate ==
    /\ status = "run"
    /\ main.pc = "locate"
    /\ \E o \in r_get_app_directory(file, zp, pos, NullBuffer) :
         /\ ReaderAfter(o, "locate", FALSE)
         /\ main' = IF o.res # "ok" THEN main
                    ELSE IF o.ret # 0
                    THEN Leave(CloseStream([main EXCEPT !.located = "notfound"]),
                               "locate")
                    ELSE [main EXCEPT !.located = "found",
                                      !.app_directory_name = o.path,
                                      !.pc = "info"]
    /\ UNCHANGED <<file, arch>>

\* lines 1635-1676; parse: what libplist makes of the content ("null": no
\* plist, "noexec": a plist without CFBundleExecutable, "exec": one with it)
IpaInfo ==
    /\ status = "run"
    /\ main.pc = "info"
    /\ \E o \in r_get_content(file, zp, pos, main.app_directory_name \o InfoPlist) :
         /\ ReaderAfter(o, "content", FALSE)
         /\ \E parse \in {"null", "noexec", "exec"} :
              main' = IF o.res # "ok" THEN main
                      ELSE IF o.ret < 0
                      THEN Leave(CloseStream(main), "info")
                      ELSE IF o.buffer = NullBuffer \/ o.len = 0 \/ parse = "null"
                      THEN Leave(CloseStream(main), "parse")
                      ELSE IF parse = "noexec"
                      THEN Leave(CloseStream(main), "executable")
                      ELSE [main EXCEPT !.bundleexecutable = Foo, !.pc = "sinf"]
    /\ UNCHANGED <<file, arch>>

\* lines 1678-1688 when the external .sinf was loaded
IpaExternalSinf ==
    /\ status = "run"
    /\ main.pc = "sinf"
    /\ main.extsinf
    /\ main' = [main EXCEPT !.sinf = TRUE, !.pc = "upload"]
    /\ UNCHANGED <<file, arch, pos, zp, status, positioned, decoded, last>>

\* lines 1690-1709
IpaSinf ==
    /\ status = "run"
    /\ main.pc = "sinf"
    /\ ~main.extsinf
    /\ \E o \in r_get_content(file, zp, pos, SinfName(main.bundleexecutable)) :
         /\ ReaderAfter(o, "content", FALSE)
         /\ main' = IF o.res # "ok" THEN main
                    ELSE IF o.ret = 0
                    \* sinf = plist_new_data(zbuf, len)
                    THEN [main EXCEPT !.sinf = TRUE, !.pc = "upload"]
                    ELSE [main EXCEPT !.warnings = @ \cup {"sinf"},
                                      !.pc = "upload"]
    /\ UNCHANGED <<file, arch>>

\* lines 1711-1727
IpaUpload ==
    /\ status = "run"
    /\ main.pc = "upload"
    /\ \E ok \in BOOLEAN :
         main' = IF ok
                 THEN [main EXCEPT !.uploaded = TRUE, !.pc = "close"]
                 ELSE Leave(CloseStream(main), "upload")
    /\ UNCHANGED <<file, arch, pos, zp, status, positioned, decoded, last>>

\* lines 1740-1742: if (zp) r_zip_close(zp).  zp is NULL only when no
\* archive was opened.  On a stream that was closed before, fclose and free
\* run on freed memory: the call faults or returns.
MainClose ==
    /\ status = "run"
    /\ main.pc = "close"
    /\ main' = IF main.opened = 0 THEN [main EXCEPT !.pc = "command"]
               ELSE [CloseStream(main) EXCEPT !.pc = "command"]
    /\ status' \in IF main.opened # 0 /\ main.closes >= 1
                   THEN {"run", "crash"} ELSE {"run"}
    /\ UNCHANGED <<file, arch, pos, zp, positioned, decoded, last>>

\* lines 1744-1755, then idevice_wait_for_command_to_complete (line 2033)
MainCommand ==
    /\ status = "run"
    /\ main.pc = "command"
    /\ main' = [main EXCEPT !.commanded = TRUE,
                            !.issued = @ + 1,
                            !.wait_for_command_complete = TRUE,
                            !.notification_expected = TRUE,
                            !.is_device_connected = TRUE,
                            !.pc = "wait_command"]
    /\ UNCHANGED <<file, arch, pos, zp, status, positioned, decoded, last>>

\* lines 1756-1760, then idevice_wait_for_command_to_complete
MainUninstall ==
    /\ status = "run"
    /\ main.pc = "start"
    /\ main.cmd = "uninstall"
    /\ main' = [main EXCEPT !.commanded = TRUE,
                            !.issued = @ + 1,
                            !.wait_for_command_complete = TRUE,
                            !.notification_expected = FALSE,
                            !.is_device_connected = TRUE,
                            !.pc = "wait_command"]
    /\ UNCHANGED <<file, arch, pos, zp, status, positioned, decoded, last>>

\* lines 2016-2019, then idevice_wait_for_command_to_complete
MainRestore ==
    /\ status = "run"
    /\ main.pc = "start"
    /\ main.cmd = "restore"
    /\ main' = [main EXCEPT !.commanded = TRUE,
                            !.issued = @ + 1,
                            !.wait_for_command_complete = TRUE,
                            !.notification_expected = TRUE,
                            !.is_device_connected = TRUE,
                            !.pc = "wait_command"]
    /\ UNCHANGED <<file, arch, pos, zp, status, positioned, decoded, last>>

\* lines 2020-2022, reached from the command line or through run_again
\* (line 1295) with notification_expected = 0 of line 1324; connected: the
\* installation_proxy service starts (lines 1301-1317)
MainRemoveArchive ==
    /\ status = "run"
    /\ main.pc \in {"start", "run_again"}
    /\ main.cmd = "remove_archive"
    /\ \E connected \in BOOLEAN :
         main' = IF main.pc = "run_again" /\ ~connected
                 THEN Leave(main, "service")
                 ELSE [main EXCEPT !.commanded = TRUE,
                                   !.issued = @ + 1,
                                   !.wait_for_command_complete = TRUE,
                                   !.notification_expected = FALSE,
                                   !.is_device_connected = TRUE,
                                   !.pc = "wait_command"]
    /\ UNCHANGED <<file, arch, pos, zp, status, positioned, decoded, last>>

\* lines 1839-1895: instproxy_archive, then the wait of line 1895;
\* prepared: the --copy directory exists and the AFC client starts
MainArchive ==
    /\ status = "run"
    /\ main.pc = "start"
    /\ main.cmd = "archive"
    /\ \E prepared \in BOOLEAN :
         main' = IF main.copy_path /\ ~prepared
                 THEN Leave(main, "copy_path")
                 ELSE [main EXCEPT !.commanded = TRUE,
                                   !.issued = @ + 1,
                                   !.wait_for_command_complete = TRUE,
                                   !.notification_expected = ~main.skip_uninstall,
                                   !.is_device_connected = TRUE,
                                   !.pc = "wait_command"]
    /\ UNCHANGED <<file, arch, pos, zp, status, positioned, decoded, last>>

\* lines 1897-2015, after the wait of the archive command.  copied: the
\* archive was fetched from the device; same_size: total == fsize;
\* handshake: lockdownd_client_new_with_handshake succeeded
ArchiveCopy ==
    /\ status = "run"
    /\ main.pc = "copy"
    /\ \E copied \in BOOLEAN, same_size \in BOOLEAN, handshake \in BOOLEAN :
         main' = IF ~main.copy_path THEN Leave(main, "none")
                 ELSE IF main.err_occurred THEN Leave(main, "archive")
                 ELSE IF ~copied THEN Leave(main, "copy")
                 ELSE IF ~(main.remove_after_copy /\ same_size)
                 THEN Leave([main EXCEPT !.remove_after_copy = FALSE], "none")
                 ELSE IF ~handshake
                 THEN Leave([main EXCEPT !.cmd = "remove_archive"], "lockdownd")
                 ELSE [main EXCEPT !.cmd = "remove_archive",
                                   !.notification_expected = FALSE,
                                   !.pc = "run_again"]
    /\ UNCHANGED <<file, arch, pos, zp, status, positioned, decoded, last>>

\* status_cb with the status "Complete" (line 746)
StatusComplete ==
    /\ status = "run"
    /\ main.pc \in {"wait_command", "wait_notification"}
    /\ main.issued \notin main.completed
    /\ main' = [main EXCEPT !.command_completed = TRUE,
                            !.completed = @ \cup {main.issued}]
    /\ UNCHANGED <<file, arch, pos, zp, status, positioned, decoded, last>>

\* status_cb with an error (line 793)
StatusError ==
    /\ status = "run"
    /\ main.pc \in {"wait_command", "wait_notification"}
    /\ ~main.err_occurred
    /\ main' = [main EXCEPT !.err_occurred = TRUE]
    /\ UNCHANGED <<file, arch, pos, zp, status, positioned, decoded, last>>

\* notifier (line 730): an app installed / uninstalled notification; the
\* callback is registered before the command is chosen (line 1288)
Notifier ==
    /\ status = "run"
    /\ main.pc \notin {"none", "exit"}
    /\ main.use_notifier
    /\ ~main.notified
    /\ main' = [main EXCEPT !.notified = TRUE]
    /\ UNCHANGED <<file, arch, pos, zp, status, positioned, decoded, last>>

\* idevice_event_callback with IDEVICE_DEVICE_REMOVE (line 816), subscribed
\* during the wait
DeviceRemoved ==
    /\ status = "run"
    /\ main.pc \in {"wait_command", "wait_notification"}
    /\ main.is_device_connected
    /\ main' = [main EXCEPT !.is_device_connected = FALSE]
    /\ UNCHANGED <<file, arch, pos, zp, status, positioned, decoded, last>>

\* idevice_event_callback with IDEVICE_DEVICE_REMOVE for another udid:
\* strcmp(udid, event->udid) is not 0 and nothing is written
OtherDeviceRemoved ==
    /\ status = "run"
    /\ main.pc \in {"wait_command", "wait_notification"}
    /\ ~main.other_removed
    /\ main' = [main EXCEPT !.other_removed = TRUE]
    /\ UNCHANGED <<file, arch, pos, zp, status, positioned, decoded, last>>

\* the loop of lines 832-835 ends
WaitForCommand ==
    /\ status = "run"
    /\ main.pc = "wait_command"
    /\ ~(/\ main.wait_for_command_complete
         /\ ~main.command_completed
         /\ ~main.err_occurred
         /\ main.is_device_connected)
    /\ main' = [main EXCEPT !.pc = "wait_notification"]
    /\ UNCHANGED <<file, arch, pos, zp, status, positioned, decoded, last>>

\* the loop of lines 838-840 ends and the wait returns: to line 1897 after
\* the archive command, else to res = 0 (line 2034) and leave_cleanup
WaitForNotification ==
    /\ status = "run"
    /\ main.pc = "wait_notification"
    /\ ~(/\ main.use_notifier
         /\ main.notification_expected
         /\ ~main.notified
         /\ ~main.err_occurred
         /\ main.is_device_connected)
    /\ main' = IF main.cmd = "archive"
               THEN [main EXCEPT !.pc = "copy"]
               ELSE Leave([main EXCEPT !.res = 0], "none")
    /\ UNCHANGED <<file, arch, pos, zp, status, positioned, decoded, last>>

MainNext ==
    \/ MainOpen
    \/ MainUploadDir
    \/ IpccNextEntry
    \/ IpccExtract
    \/ IpaExternalMetadata
    \/ IpaMetadata
    \/ IpaLocate
    \/ IpaInfo
    \/ IpaExternalSinf
    \/ IpaSinf
    \/ IpaUpload
    \/ MainClose
    \/ MainCommand
    \/ MainUninstall
    \/ MainRestore
    \/ MainRemoveArchive
    \/ MainArchive
    \/ ArchiveCopy
    \/ StatusComplete
    \/ StatusError
    \/ Notifier
    \/ DeviceRemoved
    \/ OtherDeviceRemoved
    \/ WaitForCommand
    \/ WaitForNotification

SpecMain == InitMain /\ [][MainNext]_vars

----------------------------------------------------------------------------
(* PROPERTIES                                                              *)
----------------------------------------------------------------------------

(* The scanner, r_zip_skip_until_next_entry, under SpecScan.               *)

RecognisedSignatures == {LOCAL_HEADER_SIGNATURE} \cup TerminalSignatures

\* The offsets q >= start of f at which a recognised 4-byte word lies.
SignatureOffsets(f, start) ==
    { q \in start .. (Len(f) - 4) :
        Word(f, q + 1) \in { SigBytes(x) : x \in RecognisedSignatures } }

\* The lowest of them (only used when there is one).
FirstSignatureOffset(f, start) ==
    CHOOSE q \in SignatureOffsets(f, start) :
        \A r \in SignatureOffsets(f, start) : q <= r

Scanned == last.op = "scan"

\* C2: when the first recognised signature at or after the start position is
\* the local-file-header signature, at offset p, the scanner returns Found
\* with header_start = p, whatever the alignment of p to the read chunks.
C2_LocalHeaderFound ==
    (/\ Scanned
     /\ SignatureOffsets(file, last.start) # {}
     /\ Word(file, FirstSignatureOffset(file, last.start) + 1)
            = SigBytes(LOCAL_HEADER_SIGNATURE))
    => /\ last.res = "found"
       /\ zp.header_start = FirstSignatureOffset(file, last.start)

\* C2 witness: a signature found whose bytes straddle the first chunk
\* boundary: it starts two bytes before the end of the chunk.
C2_Witness ==
    /\ Scanned
    /\ last.res = "found"
    /\ zp.header_start = last.start + BUFFER_SIZE - 2

\* C3: from any position of a stream whose remaining bytes hold no recognised
\* signature, the scanner terminates and returns EndOfEntries, short last
\* reads (1, 2, 3 bytes) and zero reads included.
C3_EndOfEntriesWithoutSignature ==
    (Scanned /\ SignatureOffsets(file, last.start) = {}) => last.res = "end"

\* C4: when a terminal signature is the first recognised signature at or
\* after the start position, the scanner returns EndOfEntries and reports no
\* local header (zp->header_start keeps the value it had).
C4_TerminalStopsScan ==
    (/\ Scanned
     /\ SignatureOffsets(file, last.start) # {}
     /\ Word(file, FirstSignatureOffset(file, last.start) + 1)
            \in { SigBytes(x) : x \in TerminalSignatures })
    => /\ last.res = "end"
       /\ zp.header_start = -1

\* C4 witness: EndOfEntries on a ZIP64 end-of-central-directory signature
\* although a local header follows it.
C4_Witness ==
    /\ Scanned
    /\ last.res = "end"
    /\ SignatureOffsets(file, last.start) # {}
    /\ Word(file, FirstSignatureOffset(file, last.start) + 1)
           = SigBytes(ZIP64_CENTRAL_FILE_HEADER_SIGNATURE)
    /\ \E q \in SignatureOffsets(file, last.start) :
           Word(file, q + 1) = SigBytes(LOCAL_HEADER_SIGNATURE)

----------------------------------------------------------------------------
(* The cursor and the decoders, under Spec.  arch is the archive as it was  *)
(* written: the entries in order, each with its name, its payload and the   *)
(* content the payload decodes to.                                          *)

EntryCount == Len(arch.entries)

\* h is the header offset of an entry of the archive
RealHeader(h) == \E k \in 1 .. EntryCount : HeaderOffset(arch, k) = h

\* the number of the entry whose header is at offset h
EntryAt(h) == CHOOSE k \in 1 .. EntryCount : HeaderOffset(arch, k) = h

\* a complete deflate stream for the content
ValidStream(e) ==
    \/ e.payload = Stored(e.content)
    \/ \E n \in 0 .. Len(e.content) : e.payload = StoredTwice(e.content, n)

\* store or deflate, a name that fits zp->filename, no flag set, the sizes in
\* the header, the payload whole
WellFormedEntry(e) ==
    /\ Len(e.name) < FILENAME_SIZE
    /\ e.flags = 0
    /\ e.hcomp = Len(e.payload)
    /\ e.huncomp = Len(e.content)
    /\ \/ e.method = COMPRESSION_STORE /\ e.payload = e.content
       \/ e.method = COMPRESSION_DEFLATE /\ ValidStream(e)

WellFormed == \A k \in 1 .. EntryCount : WellFormedEntry(arch.entries[k])

\* The entry the cursor was at when the last operation was called, when that
\* is an entry of the archive.
AtRealEntry ==
    /\ last.before.positioned
    /\ RealHeader(last.before.zp.header_start)

Current == EntryAt(last.before.zp.header_start)

\* C1: next_entry() called at an entry the caller has not decoded skips that
\* entry's payload and returns the entry that follows it in the archive (or
\* EndOfEntries after the last one), never a header found inside the payload.
C1_UndecodedEntryIsSkipped ==
    (/\ last.op = "next"
     /\ WellFormed
     /\ AtRealEntry
     /\ ~last.before.decoded)
    => IF Current < EntryCount
       THEN /\ last.res = "entry"
            /\ zp.header_start = HeaderOffset(arch, Current + 1)
       ELSE last.res = "none"

\* Deflate, bit 3 of the flags set, and zero sizes in the header.
IsDeferred(e) ==
    /\ e.method = COMPRESSION_DEFLATE
    /\ HasBit(e.flags, FLAG_DATA_DESCRIPTOR)
    /\ e.hcomp = 0
    /\ e.huncomp = 0

\* The same archive with entry k written with its sizes in the header and
\* the flag clear; every offset stays where it was.
Twin(a, k) ==
    [a EXCEPT !.entries[k] = [a.entries[k] EXCEPT
                                  !.flags = 0,
                                  !.hcomp = Len(a.entries[k].payload),
                                  !.huncomp = Len(a.entries[k].content)]]

TwinFile == ArchiveBytes(Twin(arch, Current))

\* what r_zip_get_next_entry leaves in zp for the twin's header
TwinMeta == ReadLocalHeader(TwinFile, last.before.zp).zp

\* C5: a deflate entry with deferred sizes decodes exactly as its twin with
\* accurate header sizes does: the same bytes reach the sink (or the
\* buffer) in the same chunks, the call returns the same value and leaves
\* the stream at the same position, so the same number of compressed bytes
\* was consumed; and with a sink that accepts everything the output is the
\* entry's content and r_extract_current stops right after the payload.
C5_DeferredSizesDecodeAlike ==
    (/\ last.op \in {"extract", "buffer"}
     /\ AtRealEntry
     /\ IsDeferred(arch.entries[Current]))
    => IF last.op = "extract"
       THEN /\ \E t \in { r_extract_current(TwinFile, TwinMeta, last.before.pos,
                                            last.fail) } :
                 /\ TwinMeta.comp_size = Len(arch.entries[Current].payload)
                 /\ last.ret = t.ret
                 /\ last.res = t.res
                 /\ last.sink = t.sink
                 /\ last.offered = t.offered
                 /\ pos = t.pos
                 /\ pos - zp.data_start = t.pos - t.zp.data_start
            /\ (last.fail.at = 0 /\ ValidStream(arch.entries[Current]))
               => /\ last.ret = 1
                  /\ last.sink = arch.entries[Current].content
                  /\ pos = PayloadEnd(arch, Current)
       ELSE /\ \E t \in { r_extract_to_buffer(TwinFile, TwinMeta, last.before.pos,
                                              NullBuffer) } :
                 /\ last.ret = t.ret
                 /\ last.res = t.res
                 /\ last.buffer = t.buffer
                 /\ last.size = t.size
                 /\ pos = t.pos
            /\ (ValidStream(arch.entries[Current])
                /\ arch.entries[Current].content # << >>)
               => /\ last.ret = 1
                  /\ last.buffer = arch.entries[Current].content
                  /\ last.size = Len(arch.entries[Current].content)

\* C5 witness: a deferred-size entry whose stream has two blocks, decoded to
\* the sink in full.
C5_Witness ==
    /\ last.op = "extract"
    /\ AtRealEntry
    /\ IsDeferred(arch.entries[Current])
    /\ arch.entries[Current].payload = StoredTwice(Bytes10, 8)
    /\ last.fail.at = 0
    /\ last.ret = 1
    /\ last.sink = Bytes10
    /\ pos = PayloadEnd(arch, Current)

\* Store entries only, each with its sizes in the header.
StoreOnly ==
    \A k \in 1 .. EntryCount :
        /\ arch.entries[k].method = COMPRESSION_STORE
        /\ arch.entries[k].payload = arch.entries[k].content
        /\ arch.entries[k].hcomp = Len(arch.entries[k].payload)
        /\ arch.entries[k].huncomp = Len(arch.entries[k].payload)

\* the entries whose name begins with the target
Matches(file_name) ==
    { k \in 1 .. EntryCount : HasPrefix(arch.entries[k].name, file_name) }

FirstMatch(file_name) ==
    CHOOSE k \in Matches(file_name) : \A j \in Matches(file_name) : k <= j

\* *buffer and *len hold the content
Delivered(buffer, len, content) ==
    /\ len = Len(content)
    /\ \/ buffer = content
       \/ content = << >> /\ buffer = NullBuffer

\* C6: in an archive of store entries with known sizes, the walk from the
\* opened archive (next_entry, decode, next_entry, ...) takes the entries in
\* order and hands each one's payload to the sink, byte for byte; and a
\* fetch by a name that only one entry begins with, of a size within the
\* limit, delivers that entry's payload.
C6_StoreRoundTrip ==
    StoreOnly =>
      \* the first next_entry() of the walk
      /\ (last.op = "next" /\ last.before.zp = r_zip_open /\ EntryCount > 0)
         => /\ last.res = "entry"
            /\ zp.header_start = HeaderOffset(arch, 1)
      \* the decode of the entry the walk is at
      /\ (last.op = "extract" /\ AtRealEntry /\ last.fail.at = 0)
         => /\ last.ret = 1
            /\ last.sink = arch.entries[Current].payload
      \* the next_entry() after a decode
      /\ (last.op = "next" /\ AtRealEntry /\ last.before.decoded
          /\ Current < EntryCount)
         => /\ last.res = "entry"
            /\ zp.header_start = HeaderOffset(arch, Current + 1)
      \* the fetch
      /\ (/\ last.op = "content"
          /\ Cardinality(Matches(last.file_name)) = 1
          /\ ~TooLarge(Len(arch.entries[FirstMatch(last.file_name)].payload)))
         => /\ last.ret = 0
            /\ Delivered(last.buffer, last.len,
                         arch.entries[FirstMatch(last.file_name)].payload)

\* C7: while r_get_content decodes the matching entry, the buffer never
\* holds more than the limit.
C7_BufferWithinLimit ==
    last.op = "content" => last.peak <= MAX_CONTENT_SIZE

\* the uncompressed size the header at offset h declares; 0 (unknown) when
\* the sizes are deferred
DeclaredSize(h) ==
    IF HasBit(LE16(Bytes(file, h, LFH_SIZE), 7), FLAG_DATA_DESCRIPTOR)
       /\ LE32(Bytes(file, h, LFH_SIZE), 19) = 0
    THEN 0
    ELSE LE32(Bytes(file, h, LFH_SIZE), 23)

\* C8: when the matching entry declares an uncompressed size that is known
\* and above the limit, r_get_content returns -1 without decoding: the
\* decoder is not called, the stream is left where the payload starts, and
\* the caller gets no buffer.
C8_DeclaredTooLargeNotDecoded ==
    (/\ last.op = "content"
     /\ last.match # -1
     /\ DeclaredSize(last.match) # 0
     /\ DeclaredSize(last.match) > MAX_CONTENT_SIZE)
    => /\ last.ret = -1
       /\ last.extracts = 0
       /\ last.peak = 0
       /\ last.buffer = NullBuffer
       /\ last.len = 0
       /\ pos = last.match + LFH_SIZE
                  + LE16(Bytes(file, last.match, LFH_SIZE), 27)
                  + LE16(Bytes(file, last.match, LFH_SIZE), 29)

\* C8 witness: a deflate entry declaring one byte more than the limit is
\* turned down.
C8_Witness ==
    /\ last.op = "content"
    /\ last.match # -1
    /\ DeclaredSize(last.match) = MAX_CONTENT_SIZE + 1
    /\ LE16(Bytes(file, last.match, LFH_SIZE), 9) = COMPRESSION_DEFLATE
    /\ last.ret = -1
    /\ last.extracts = 0

\* the rule of r_get_app_directory on a name
IsBundleName(name) ==
    /\ HasPrefix(name, PayloadDir)
    /\ Len(name) > 8
    /\ name[9] # Dot
    /\ \E s \in 9 .. Len(name) :
         /\ name[s] = Slash
         /\ \A j \in 9 .. (s - 1) : name[j] # Slash
         /\ s >= 12
         /\ SubSeq(name, s - 4, s - 1) = DotApp

\* the prefix up to and including the first '/' after "Payload/"
BundlePrefix(name) ==
    SubSeq(name, 1, CHOOSE s \in 9 .. Len(name) :
                        /\ name[s] = Slash
                        /\ \A j \in 9 .. (s - 1) : name[j] # Slash)

BundleEntries == { k \in 1 .. EntryCount : IsBundleName(arch.entries[k].name) }

FirstBundle == CHOOSE k \in BundleEntries : \A j \in BundleEntries : k <= j

\* C9: on a freshly opened archive r_get_app_directory returns the prefix of
\* the first entry that satisfies the rule; the entries before it are passed
\* over and none after it is read.
C9_FirstBundleDirectory ==
    (/\ last.op = "locate"
     /\ last.before.zp = r_zip_open
     /\ WellFormed
     /\ BundleEntries # {})
    => /\ last.res = "ok"
       /\ last.ret = 0
       /\ last.path = BundlePrefix(arch.entries[FirstBundle].name)
       /\ last.calls = FirstBundle

\* C10: r_get_content stops at the first entry, in archive order, whose name
\* begins with the target: that is the entry whose content it returns (or
\* turns down as too large), and r_zip_get_next_entry is not called again,
\* so a later entry with the same prefix never replaces it.
C10_FirstMatchFetched ==
    (/\ last.op = "content"
     /\ Matches(last.file_name) # {}
     /\ \A j \in 1 .. FirstMatch(last.file_name) : WellFormedEntry(arch.entries[j]))
    => /\ last.res = "ok"
       /\ last.match = HeaderOffset(arch, FirstMatch(last.file_name))
       /\ last.calls = FirstMatch(last.file_name)
       /\ last.extracts <= 1
       /\ IF TooLarge(Len(arch.entries[FirstMatch(last.file_name)].content))
          THEN last.ret = -1
          ELSE /\ last.ret = 0
               /\ Delivered(last.buffer, last.len,
                            arch.entries[FirstMatch(last.file_name)].content)

\* C10 witness: two entries begin with the target; the content of the first
\* is returned after a single r_zip_get_next_entry call.
C10_Witness ==
    /\ last.op = "content"
    /\ Cardinality(Matches(last.file_name)) = 2
    /\ FirstMatch(last.file_name) = 1
    /\ WellFormedEntry(arch.entries[1])
    /\ last.ret = 0
    /\ last.calls = 1
    /\ last.buffer = arch.entries[1].content
    /\ last.buffer # arch.entries[CHOOSE k \in Matches(last.file_name) : k # 1].content

\* *buffer is NULL
IsNull(buffer) == buffer = NullBuffer

\* what the caller of r_get_content has in hand afterwards: the value
\* returned, whether *buffer is NULL, the bytes it points to, and *len
Handed(o) ==
    << o.ret, IsNull(o.buffer), IF IsNull(o.buffer) THEN << >> ELSE o.buffer,
       o.len >>

\* the fetch ended at EndOfEntries without a match
NotFound(o) == o.res = "ok" /\ o.match = -1

\* C11: when no entry matches, what r_get_content hands back differs from
\* what it hands back after any fetch (on the same archive, from the same
\* cursor state) that found its entry, a zero-length entry and an entry
\* turned down as too large included.
C11_NotFoundIsDistinct ==
    (last.op = "content" /\ NotFound(last))
    => \A t \in Targets :
         \A o \in r_get_content(file, last.before.zp, last.before.pos, t) :
             (/\ o.res = "ok"
              /\ RealHeader(o.match)
              /\ WellFormedEntry(arch.entries[EntryAt(o.match)]))
             => Handed(o) # Handed(last)

\* C12: on a freshly opened archive none of whose entries satisfies the
\* bundle-directory rule, r_get_app_directory returns -1 and leaves *path
\* NULL; and whenever it returns 0 it has stored a path.
C12_NotFoundWithoutBundle ==
    (/\ last.op = "locate"
     /\ last.before.zp = r_zip_open
     /\ WellFormed)
    => /\ BundleEntries = {}
          => /\ last.res = "ok"
             /\ last.ret = -1
             /\ last.path = NullBuffer
       /\ (last.res = "ok" /\ last.ret = 0) => last.path # NullBuffer

\* the local header at offset h is that of a store entry with deferred
\* sizes: bit 3 of the flags set and a compressed size of zero
DeferredStoreHeader(h) ==
    /\ h >= 0
    /\ Len(Bytes(file, h, LFH_SIZE)) = LFH_SIZE
    /\ Word(Bytes(file, h, LFH_SIZE), 1) = SigBytes(LOCAL_HEADER_SIGNATURE)
    /\ LE16(Bytes(file, h, LFH_SIZE), 9) = COMPRESSION_STORE
    /\ HasBit(LE16(Bytes(file, h, LFH_SIZE), 7), FLAG_DATA_DESCRIPTOR)
    /\ LE32(Bytes(file, h, LFH_SIZE), 19) = 0

\* C13: a store entry with deferred sizes is turned down whatever its other
\* flag bits are: r_zip_get_next_entry does not return it as an entry, and no
\* decode of it succeeds or hands anything to the sink.
C13_DeferredStoreRejected ==
    /\ (last.op = "next" /\ last.res = "entry")
       => ~DeferredStoreHeader(zp.header_start)
    /\ (/\ last.op = "extract"
        /\ last.res = "ok"
        /\ DeferredStoreHeader(last.before.zp.header_start))
       => /\ last.ret = 0
          /\ last.offered = << >>
          /\ last.sink = << >>

Supported(method) == method \in {COMPRESSION_STORE, COMPRESSION_DEFLATE}

\* the compression method in the local header at offset h
MethodAt(h) == LE16(Bytes(file, h, LFH_SIZE), 9)

\* C14: decoding an entry whose method is neither store nor deflate fails:
\* the decoders return 0, hand nothing to the sink or the buffer and leave
\* the consumed flag as it was; and r_get_content, when the entry it stops at
\* has such a method, returns an error value, not the 0 of a fetch.
C14_UnsupportedMethodFails ==
    /\ (/\ last.op = "extract"
        /\ last.before.positioned
        /\ ~Supported(last.before.zp.compression))
       => /\ last.res = "ok"
          /\ last.ret = 0
          /\ last.offered = << >>
          /\ last.sink = << >>
          /\ zp.consumed = last.before.zp.consumed
    /\ (/\ last.op = "buffer"
        /\ last.before.positioned
        /\ ~Supported(last.before.zp.compression))
       => /\ last.res = "ok"
          /\ last.ret = 0
          /\ last.buffer = NullBuffer
          /\ last.size = 0
          /\ zp.consumed = last.before.zp.consumed
    /\ (/\ last.op = "content"
        /\ last.res = "ok"
        /\ last.match # -1
        /\ ~Supported(MethodAt(last.match)))
       => /\ last.ret # 0
          /\ last.buffer = NullBuffer

\* the file name length the local header at offset h declares, and the
\* name bytes that follow the header
NameLengthAt(h) == LE16(Bytes(file, h, LFH_SIZE), 27)
NameAt(h) == Bytes(file, h + LFH_SIZE, NameLengthAt(h))

\* C15: r_zip_get_next_entry never writes outside zp->filename; a header
\* whose name length is above 255 makes it fail (return 0), and a name it
\* accepts is stored whole.
C15_NameFitsBuffer ==
    last.op = "next"
    => /\ last.res # "overflow"
       /\ last.res = "entry"
          => /\ NameLengthAt(zp.header_start) < FILENAME_SIZE
             /\ CStr(zp.filename) = CStr(NameAt(zp.header_start))

\* the local header at offset h defers its sizes: bit 3 of the flags set and
\* a compressed size of zero
DeferredHeader(h) ==
    /\ HasBit(LE16(Bytes(file, h, LFH_SIZE), 7), FLAG_DATA_DESCRIPTOR)
    /\ LE32(Bytes(file, h, LFH_SIZE), 19) = 0

\* C16: after r_zip_get_next_entry returned an entry whose header defers its
\* sizes, zp->comp_size and zp->uncomp_size are both 0, whatever entries were
\* visited before.
C16_DeferredSizesUnknown ==
    (/\ last.op = "next"
     /\ last.res = "entry"
     /\ DeferredHeader(zp.header_start))
    => /\ zp.comp_size = 0
       /\ zp.uncomp_size = 0

\* the inflater reports an error on the deflate payload that starts at
\* offset start: bad data, or the end of the file before the end of the
\* deflate stream
InflateErrorAt(start) == InflatePayload(file, start).res = "hang"

\* C17: an inflate error ends the decode with a failure on every path: the
\* decode to the sink and the decode to the buffer return 0, and the skip of
\* an undecoded entry in r_zip_get_next_entry returns; none of them goes on
\* reading and inflating.
C17_InflateErrorIsFatal ==
    /\ (/\ last.op = "extract"
        /\ last.before.zp.compression = COMPRESSION_DEFLATE
        /\ InflateErrorAt(last.before.zp.data_start))
       => /\ last.res = "ok"
          /\ last.ret = 0
    /\ (/\ last.op = "buffer"
        /\ last.before.zp.compression = COMPRESSION_DEFLATE
        /\ InflateErrorAt(last.before.zp.data_start))
       => /\ last.res = "ok"
          /\ last.ret = 0
          /\ last.buffer = NullBuffer
    /\ (/\ last.op = "next"
        /\ last.before.zp.consumed = FALSE
        /\ last.before.zp.header_start # -1
        /\ last.before.zp.compression = COMPRESSION_DEFLATE
        /\ InflateErrorAt(last.before.zp.data_start))
       => last.res \in {"entry", "none"}


\* write call number last.fail.at was made and went wrong: the sink reported
\* an error, or took fewer bytes than the chunk offered
WriteWentWrong ==
    /\ last.op = "extract"
    /\ last.fail.at # 0
    /\ Len(last.offered) >= last.fail.at
    /\ (last.fail.kind = "error" \/ last.offered[last.fail.at] # 0)

\* C18: when a write to the sink reports an error or takes a number of bytes
\* other than the chunk offered, r_extract_current returns 0 and that write
\* is the last one it makes, for store and for deflate; what the sink took
\* before is a prefix of the decoded content.
C18_SinkFailureStopsDecode ==
    WriteWentWrong
    => /\ last.res = "ok"
       /\ last.ret = 0
       /\ Len(last.offered) = last.fail.at
       /\ zp.consumed = last.before.zp.consumed

\* a short first write on a deflate entry whose decode has more to offer
C18_Witness ==
    /\ WriteWentWrong
    /\ last.fail = [at |-> 1, kind |-> "short"]
    /\ last.before.zp.compression = COMPRESSION_DEFLATE
    /\ Len(InflatePayload(file, last.before.zp.data_start).steps) > 1
    /\ last.ret = 0
    /\ Len(last.sink) = last.offered[1] - 1

RECURSIVE SumOf(_)
SumOf(lengths) ==
    IF lengths = << >> THEN 0 ELSE Head(lengths) + SumOf(Tail(lengths))

\* the compressed size the local header at offset h declares, and the offset
\* of the payload that follows the header, the name and the extra field
CompSizeAt(h) == LE32(Bytes(file, h, LFH_SIZE), 19)
PayloadStartAt(h) ==
    h + LFH_SIZE + NameLengthAt(h) + LE16(Bytes(file, h, LFH_SIZE), 29)

\* the payload bytes of the store entry at h that the file holds
StorePayloadAt(h) == Bytes(file, PayloadStartAt(h), CompSizeAt(h))

\* r_extract_current was called on a store entry whose header gives its size
StoreDecode ==
    /\ last.op = "extract"
    /\ last.before.positioned
    /\ last.before.zp.compression = COMPRESSION_STORE
    /\ ~DeferredHeader(last.before.zp.header_start)

\* C19: the decode of a store entry whose header declares S compressed bytes
\* offers the sink chunks of 1 to CHUNK_SIZE bytes that are, in order, the
\* payload bytes of the archive, never more than S in all; it succeeds when
\* the S bytes are there and the sink takes them, and then exactly S bytes
\* were offered, the entry is consumed and the stream stands at the payload
\* start + S.
C19_StoreCopiesDeclaredSize ==
    StoreDecode
    => /\ last.res = "ok"
       /\ \A i \in 1 .. Len(last.offered) : last.offered[i] \in 1 .. CHUNK_SIZE
       /\ SumOf(last.offered) <= CompSizeAt(last.before.zp.header_start)
       /\ Len(last.sink) <= SumOf(last.offered)
       /\ last.sink
            = SubSeq(StorePayloadAt(last.before.zp.header_start), 1, Len(last.sink))
       /\ (/\ last.fail.at = 0
           /\ Len(StorePayloadAt(last.before.zp.header_start))
                = CompSizeAt(last.before.zp.header_start))
          => last.ret = 1
       /\ last.ret = 1
          => /\ SumOf(last.offered) = CompSizeAt(last.before.zp.header_start)
             /\ last.sink = StorePayloadAt(last.before.zp.header_start)
             /\ Len(last.sink) = CompSizeAt(last.before.zp.header_start)
             /\ zp.consumed
             /\ pos = PayloadStartAt(last.before.zp.header_start)
                        + CompSizeAt(last.before.zp.header_start)

\* a store payload of more than two chunks decoded whole
C19_Witness ==
    /\ StoreDecode
    /\ last.ret = 1
    /\ Len(last.offered) = 3
    /\ last.offered[1] = CHUNK_SIZE
    /\ last.offered[3] < CHUNK_SIZE
    /\ pos = PayloadStartAt(last.before.zp.header_start) + SumOf(last.offered)

\* the number of bytes of the deflate stream that starts at offset start:
\* what the inflater consumed when it signalled the end
StreamLength(start) == InflatePayload(file, start).total_in_size

\* C20: after a successful decode of a deflate entry, to the sink or to the
\* buffer, the stream stands at the payload start plus the number of
\* compressed bytes the inflater consumed: the first byte after the payload,
\* not the end of the last chunk read.
C20_PositionAfterDeflate ==
    (/\ last.op \in {"extract", "buffer"}
     /\ last.before.positioned
     /\ last.before.zp.compression = COMPRESSION_DEFLATE
     /\ last.res = "ok"
     /\ last.ret = 1)
    => pos = last.before.zp.data_start + StreamLength(last.before.zp.data_start)

\* where the scan of the last r_zip_get_next_entry call began: after the
\* skip of r_close_entry when the call made one, else where the stream stood
ScanStart ==
    IF last.before.zp.consumed = FALSE /\ last.before.zp.header_start # -1
    THEN r_close_entry(file, last.before.zp, last.before.pos).pos
    ELSE last.before.pos

\* C21: in an archive of well-formed entries, after r_zip_get_next_entry
\* returned an entry the stream stands at the start of its payload; after a
\* successful decode, to the sink or to the buffer, it stands at the byte
\* after the payload of the entry; and the scan of r_zip_get_next_entry,
\* called at an entry that was not decoded, begins after that entry's
\* payload, never inside it.
C21_PositionAtPayloadBounds ==
    WellFormed
    => /\ (last.op = "next" /\ last.res = "entry" /\ RealHeader(zp.header_start))
          => pos = PayloadStart(arch, EntryAt(zp.header_start))
       /\ (/\ last.op \in {"extract", "buffer"}
           /\ AtRealEntry
           /\ last.res = "ok"
           /\ last.ret = 1)
          => pos = PayloadEnd(arch, Current)
       /\ (/\ last.op = "next"
           /\ AtRealEntry
           /\ ~last.before.decoded)
          => ScanStart = PayloadEnd(arch, Current)

\* C22: once r_zip_get_next_entry has returned 0 at the end of the entries
\* of a well-formed archive, the next r_zip_get_next_entry call on the same
\* stream returns 0 again: it returns no entry, and so none that was
\* returned before.
C22_EndOfEntriesIsFinal ==
    [][ (/\ WellFormed
         /\ last.op = "next"
         /\ last.res = "none"
         /\ last'.op = "next")
        => last'.res = "none" ]_vars

\* C24: while the traversal is at an entry (the last r_zip_get_next_entry
\* returned one, and only decodes of it followed), the entry the next
\* r_zip_get_next_entry call returns has a greater header offset: the
\* offsets of the entries returned one after the other increase strictly,
\* and no entry is returned twice before the end of the entries.
C24_HeaderOffsetsIncrease ==
    [][ (/\ positioned
         /\ last'.op = "next"
         /\ last'.res = "entry")
        => zp'.header_start > zp.header_start ]_vars

\* a second entry was returned, after the first was decoded or passed over
C24_Witness ==
    /\ last.op = "next"
    /\ last.res = "entry"
    /\ last.before.positioned
    /\ RealHeader(last.before.zp.header_start)
    /\ RealHeader(zp.header_start)
    /\ EntryAt(zp.header_start) = EntryAt(last.before.zp.header_start) + 1

\* the last operation was a decode of the current entry that succeeded
DecodeSucceeded ==
    /\ last.op \in {"extract", "buffer"}
    /\ last.before.positioned
    /\ last.res = "ok"
    /\ last.ret = 1

\* C28: after a successful decode of the current entry, store or deflate, to
\* the sink or to the buffer, zp->consumed is true; and the
\* r_zip_get_next_entry call that follows does not run r_close_entry on the
\* entry (which would read and inflate its payload again): its scan begins
\* where the decode left the stream.
C28_DecodedEntryIsConsumed ==
    /\ DecodeSucceeded => zp.consumed
    /\ (/\ last.op = "next"
        /\ last.before.positioned
        /\ last.before.decoded)
       => /\ last.before.zp.consumed
          /\ ScanStart = last.before.pos

\* the cursor moved on from a deflate entry that had been decoded
C28_Witness ==
    /\ last.op = "next"
    /\ last.before.positioned
    /\ last.before.decoded
    /\ last.before.zp.compression = COMPRESSION_DEFLATE
    /\ last.before.zp.consumed
    /\ last.res = "entry"

\* what a decode to the sink hands to its caller and to the sink
SinkOutput(o) == << o.res, o.ret, o.sink, o.offered >>

\* what a decode to the buffer hands to its caller
BufferOutput(o) == << o.res, o.ret, o.buffer, o.size >>

\* two decodes to the buffer hand over the same: equal results, and no byte
\* of the buffer is one the code never wrote (such a byte holds whatever the
\* allocation held, which need not be the same in two calls)
SameBuffer(o1, o2) ==
    /\ BufferOutput(o1) = BufferOutput(o2)
    /\ \A i \in 1 .. Len(o1.buffer) : o1.buffer[i] # Indeterminate

\* C29: the decode of the current entry seeks to zp->data_start first, so
\* what it returns and delivers is the same from every stream position, and
\* the same again when the entry is decoded a second time right after: to
\* the sink (with the same sink behaviour) and to the buffer.
C29_DecodeIgnoresPosition ==
    /\ (last.op = "extract" /\ last.before.positioned)
       => /\ \A p \in 0 .. Len(file) :
               SinkOutput(r_extract_current(file, last.before.zp, p, last.fail))
                 = SinkOutput(last)
          /\ SinkOutput(r_extract_current(file, zp, pos, last.fail))
               = SinkOutput(last)
    /\ (last.op = "buffer" /\ last.before.positioned)
       => /\ \A p \in 0 .. Len(file) :
               SameBuffer(r_extract_to_buffer(file, last.before.zp, p, NullBuffer),
                          last)
          /\ SameBuffer(r_extract_to_buffer(file, zp, pos, NullBuffer), last)

\* the name begins with "Payload/", is not hidden, and has no '/' after the
\* prefix
NoSecondSlash(name) ==
    /\ HasPrefix(name, PayloadDir)
    /\ Len(name) > 8
    /\ name[9] # Dot
    /\ \A s \in 9 .. Len(name) : name[s] # Slash

\* the entries with such a name that r_get_app_directory comes to
SlashlessEntries ==
    { k \in 1 .. EntryCount :
        /\ NoSecondSlash(arch.entries[k].name)
        /\ (BundleEntries = {} \/ k < FirstBundle) }

\* C30: r_get_app_directory passes over an entry whose name begins with
\* "Payload/" and has no '/' after that: the search for the '/' ends at the
\* end of the name, the call neither faults nor takes a '/' from outside the
\* name, and its result is that of the entries that follow.
C30_SlashSearchStaysInName ==
    (/\ last.op = "locate"
     /\ last.before.zp = r_zip_open
     /\ WellFormed
     /\ SlashlessEntries # {})
    => /\ last.res = "ok"
       /\ IF BundleEntries # {}
          THEN /\ last.ret = 0
               /\ last.path = BundlePrefix(arch.entries[FirstBundle].name)
          ELSE /\ last.ret = -1
               /\ last.path = NullBuffer

\* the last r_zip_get_next_entry call returned 0 after its scan had found a
\* local header signature: the read of the header fell short, or the entry
\* was turned down (store with a data descriptor)
HeaderFailure ==
    /\ last.op = "next"
    /\ last.res = "none"
    /\ \E s \in r_zip_skip_until_next_entry(file, ScanStart, 0) :
         /\ s.res = "found"
         /\ zp.header_start = s.header_start

\* C23: when r_zip_get_next_entry fails at a local header it returns a value
\* other than the 0 of the end of the entries, and the upload loop of a
\* carrier bundle that met such a failure does not go on to the install
\* command: main ends with a failure status.
C23_HeaderFailureAborts ==
    (main.package = "ipcc" /\ HeaderFailure)
    => /\ last.ret \notin {0, 1}
       /\ ~main.commanded
       /\ main.pc = "exit" => main.res # 0

\* C25: the stream main opens with r_zip_open is closed with r_zip_close
\* exactly once on every path: at no time has it been closed more often
\* than opened (a second r_zip_close would also use the freed stream), and
\* when main returns every opened stream has been closed.
C25_StreamClosedOnce ==
    /\ main.pc # "none" => main.closes <= main.opened
    /\ main.pc = "exit" => main.closes = main.opened

\* the package holds an entry of that name
HasEntry(name) ==
    \E i \in 1..Len(arch.entries) : CStr(arch.entries[i].name) = name

\* the install/upgrade of an .ipa has passed the step (pc values in order)
IpaPast(step) ==
    /\ main.package = "ipa"
    /\ \/ main.pc \in step
       \/ main.uploaded

\* C26: in the .ipa workflow the upload and the install/upgrade command
\* happen only after r_get_app_directory found the bundle directory; when
\* it did not, main exits with a failure status and neither uploads nor
\* issues the command; a package without iTunesMetadata.plist or without
\* the .sinf entry gets a warning for it and the workflow goes on (no abort
\* is caused by the missing entry).
C26_BundleMandatoryRestOptional ==
    /\ (main.package = "ipa" /\ (main.uploaded \/ main.commanded))
       => main.located = "found"
    /\ main.located = "notfound"
       => /\ main.pc = "exit" /\ main.res # 0
          /\ ~main.uploaded /\ ~main.commanded
    /\ (/\ IpaPast({"locate", "info", "sinf", "upload"})
        /\ ~main.extmeta
        /\ ~HasEntry(ITUNES_METADATA_PLIST_FILENAME))
       => "meta" \in main.warnings
    /\ (/\ IpaPast({"upload"})
        /\ ~main.extsinf
        /\ ~HasEntry(SinfName(Foo)))
       => "sinf" \in main.warnings

\* C27: with -w (use_notifier) main does not return 0 after an install,
\* upgrade or uninstall command before the notifier callback has run,
\* unless status_cb reported an error or the device was removed.
C27_SuccessWaitsForNotification ==
    (/\ main.pc = "exit"
     /\ main.res = 0
     /\ main.use_notifier
     /\ main.cmd \in {"install", "upgrade", "uninstall"}
     /\ main.commanded)
    => \/ main.notified
       \/ main.err_occurred
       \/ ~main.is_device_connected

\* C31: every 4-byte word the scanner inspects lies within the bytes the
\* read delivered, for every read size (1, 2 and 3 included): a header it
\* reports is a word of the stream at or after the start position, and the
\* loop never reads outside the buffer (no fault).
C31_InspectedWordsWithinRead ==
    Scanned
    => /\ last.res # "crash"
       /\ last.res = "found"
          => /\ zp.header_start >= last.start
             /\ zp.header_start + 4 <= Len(file)
             /\ Word(file, zp.header_start + 1) = SigBytes(LOCAL_HEADER_SIGNATURE)

\* C32: right after r_zip_get_next_entry returned a new entry, the consumed
\* flag of the stream is false, whatever it was for the entry before (also
\* after the caller decoded that entry).
C32_NewEntryIsUnconsumed ==
    (last.op = "next" /\ last.res = "entry") => zp.consumed = FALSE

\* what r_get_content hands to its caller
Fetched(o) == << o.res, o.ret, o.buffer, o.len >>

\* the results of r_get_content for the name on the archive freshly opened
FreshFetch(file_name) ==
    { Fetched(o) : o \in r_get_content(file, r_zip_open, 0, file_name) }

\* C33: what r_get_content returns is fixed by the bytes of the archive and
\* the target name.  From whatever cursor state earlier calls left (after
\* r_get_app_directory, after another fetch, at an entry, after a decode)
\* it returns what a call on the freshly opened stream returns, and every
\* byte it hands over was written from the archive (a byte the code never
\* wrote holds what the allocation held, which earlier calls decide).
C33_FetchIgnoresCursor ==
    last.op = "content"
    => /\ FreshFetch(last.file_name) = { Fetched(last) }
       /\ \A i \in 1 .. Len(last.buffer) : last.buffer[i] # Indeterminate

\* idevice_wait_for_command_to_complete returns with this step
WaitReturns == main.pc = "wait_notification" /\ main'.pc # "wait_notification"

\* C34: idevice_wait_for_command_to_complete returns only when status_cb
\* has seen the Complete status of the command that was issued, or has
\* reported an error, or the removal of the targeted device was reported;
\* the removal of another device does not end the wait, and without one of
\* the three events the wait does not return.
C34_WaitEndsOnEvent ==
    [][ WaitReturns
        => \/ main.issued \in main.completed
           \/ main.err_occurred
           \/ ~main.is_device_connected ]_vars

\* C35: for install, upgrade, uninstall, restore and remove-archive main
\* returns 0 only when status_cb has seen the Complete status of the command
\* and has reported no error; with an error reported, a status that would
\* be 0 is 128.
C35_ZeroStatusMeansComplete ==
    (/\ main.pc = "exit"
     /\ main.cmd \in {"install", "upgrade", "uninstall", "restore",
                      "remove_archive"})
    => /\ main.res = 0 => /\ main.issued \in main.completed
                          /\ ~main.err_occurred
       /\ (main.err_occurred /\ main.abort = "none") => main.res = 128

\* C36: after archive with --copy and --remove, when the copy succeeded
\* and remove-archive was issued through run_again, main does not leave
\* the wait and return before status_cb has seen the Complete status of
\* remove-archive, or reported an error, or the device was removed, after
\* that command was issued.
C36_RemoveArchiveIsWaitedFor ==
    (/\ main.pc = "exit"
     /\ main.cmd = "remove_archive"
     /\ main.issued = 2
     /\ main.abort = "none")
    => \/ 2 \in main.completed
       \/ main.err_occurred
       \/ ~main.is_device_connected

\* r_extract_to_buffer has just decoded a deflate entry
BufferedDeflate ==
    /\ last.op = "buffer"
    /\ last.before.zp.compression = COMPRESSION_DEFLATE

\* C37: in the deflate branch of r_extract_to_buffer no memcpy writes past
\* the allocation: at each copy total_size + have <= alloc_size, so the
\* bytes held never exceed the allocation.
C37_CopyStaysInAllocation ==
    BufferedDeflate
    => /\ ~last.overrun
       /\ last.peak <= last.alloc

\* C37 witness: a deflate entry decoded to the end whose output made the
\* buffer grow past its initial size.
C37_Witness ==
    /\ BufferedDeflate
    /\ last.res = "ok"
    /\ last.ret = 1
    /\ last.peak > INITIAL_ALLOC_SIZE
    /\ last.alloc > INITIAL_ALLOC_SIZE

============================================================================
